---- MODULE Spec2Model ----
(***************************************************************************)
(* Model of the desktop backend runtime in                                 *)
(* src/apps/desktop/src-tauri/src/lib.rs: the automation bridge (HTTP      *)
(* listener, job store, queue, worker, frontend dispatcher, workspace      *)
(* registry) and the pane runtime (pane registry, reader threads,          *)
(* suspend/resume, broadcast).                                             *)
(*                                                                         *)
(* Conventions.  Option<T> is a sequence: None is << >>, Some(x) is <<x>>. *)
(* A Rust String that the code trims or prefix-strips is a sequence of     *)
(* one-character strings; identifiers the code only compares are TLA+      *)
(* strings.  Result<(), HttpError> is Option<HttpError> (None = Ok).       *)
(***************************************************************************)
EXTENDS Integers, Sequences, FiniteSets, TLC

\* ------------------------------------------------------------------------
\* Program constants (lib.rs:23-43), scaled where the model has to reach them.
\* ------------------------------------------------------------------------

\* AUTOMATION_QUEUE_MAX (200 in the source), scaled to 2.
AUTOMATION_QUEUE_MAX ==
    2

\* AUTOMATION_COMPLETED_JOB_RETENTION_MAX (500 in the source), scaled to 1.
AUTOMATION_COMPLETED_JOB_RETENTION_MAX ==
    1

\* AUTOMATION_MAX_COMMAND_BYTES (16 * 1024 in the source), scaled to 2.
AUTOMATION_MAX_COMMAND_BYTES ==
    2

\* AUTOMATION_HTTP_MAX_BODY_BYTES (64 * 1024 in the source), scaled to 4.
AUTOMATION_HTTP_MAX_BODY_BYTES ==
    4

\* The length of the read buffer of handle_automation_http_connection (2048
\* in the source), scaled to 2.
READ_BUFFER_BYTES ==
    2

\* ------------------------------------------------------------------------
\* Bounds of the model.
\* ------------------------------------------------------------------------

\* Number of job ids (Uuid::new_v4 values) a behaviour may draw.
MaxJobs ==
    3

\* Largest value of the millisecond clock.
MaxClock ==
    1

\* UI commands that can be in flight at once.
MaxTasks ==
    1

\* PaneRuntime records allocated in one run.
MaxRuntimes ==
    2

\* Length of the pane id list of one broadcast.
MaxPaneIds ==
    2

\* Lock acquisitions on the writer of one pane.
MaxWrites ==
    3

\* The number of set_discord_presence_enabled calls of a behaviour.
MaxCommands ==
    3

\* ------------------------------------------------------------------------
\* Option and string helpers.
\* ------------------------------------------------------------------------

None ==
    << >>

Some(x) ==
    <<x>>

IsSome(o) ==
    o # << >>

Unwrap(o) ==
    o[1]

UnwrapOr(o, d) ==
    IF o = << >> THEN d ELSE o[1]

\* char::is_whitespace, restricted to the characters the inputs use.
IsWhitespace(c) ==
    c \in {" ", "\t"}

RECURSIVE TrimStart(_)
TrimStart(s) ==
    IF s # << >> /\ IsWhitespace(Head(s)) THEN TrimStart(Tail(s)) ELSE s

RECURSIVE TrimEnd(_)
TrimEnd(s) ==
    IF s # << >> /\ IsWhitespace(s[Len(s)])
    THEN TrimEnd(SubSeq(s, 1, Len(s) - 1))
    ELSE s

\* str::trim
Trim(s) ==
    TrimEnd(TrimStart(s))

\* str::strip_prefix
StripPrefix(s, p) ==
    IF Len(s) >= Len(p) /\ SubSeq(s, 1, Len(p)) = p
    THEN Some(SubSeq(s, Len(p) + 1, Len(s)))
    ELSE None

\* The literal "Bearer " of parse_bearer_token.
BearerPrefix ==
    <<"B", "e", "a", "r", "e", "r", " ">>

HttpError(code, msg) ==
    [status_code |-> code, message |-> msg]

\* ------------------------------------------------------------------------
\* Authorization (pure).
\* ------------------------------------------------------------------------

\* configured_automation_token: the env value trimmed, None when unset or empty.
configured_automation_token(env_value) ==
    IF IsSome(env_value) /\ Trim(Unwrap(env_value)) # << >>
    THEN Some(Trim(Unwrap(env_value)))
    ELSE None

parse_bearer_token(authorization_header) ==
    LET stripped == IF IsSome(authorization_header)
                    THEN StripPrefix(Unwrap(authorization_header), BearerPrefix)
                    ELSE None
        trimmed == IF IsSome(stripped) THEN Some(Trim(Unwrap(stripped))) ELSE None
    IN  IF IsSome(trimmed) /\ Unwrap(trimmed) # << >> THEN trimmed ELSE None

\* A plausible slip: any header is accepted as proof of authorization, the
\* token is not compared.
authorize_skips_comparison(expected_token, authorization_header) ==
    IF ~IsSome(expected_token) THEN None
    ELSE IF ~IsSome(parse_bearer_token(authorization_header))
         THEN Some(HttpError(401, "missing automation bearer token"))
         ELSE None

authorize_automation_request(expected_token, authorization_header) ==
    IF ~IsSome(expected_token) THEN None
    ELSE LET provided == parse_bearer_token(authorization_header)
         IN  IF ~IsSome(provided)
             THEN Some(HttpError(401, "missing automation bearer token"))
             ELSE IF Unwrap(provided) # Unwrap(expected_token)
                  THEN Some(HttpError(401, "invalid automation bearer token"))
                  ELSE None

\* ------------------------------------------------------------------------
\* Workspace registry lookups and request validation (pure in W).
\* ------------------------------------------------------------------------

\* workspace_for_automation: Some(snapshot) or None (NotFound "... is not open").
workspace_for_automation(registry, workspace_id) ==
    IF workspace_id \in DOMAIN registry THEN Some(registry[workspace_id]) ELSE None

\* The resolve_workspace closure of validate_external_command_request:
\* None when the workspace resolves, otherwise the HttpError.
resolve_workspace_error(registry, workspace_id) ==
    IF Trim(workspace_id) = << >>
    THEN Some(HttpError(400, "workspaceId is required"))
    ELSE IF ~IsSome(workspace_for_automation(registry, workspace_id))
         THEN Some(HttpError(404, "workspace is not open"))
         ELSE None

\* A plausible slip: the variant check runs before the workspace is resolved.
validate_variant_first(registry, request) ==
    IF request.action = "create_panes"
         /\ (request.pane_count < 1 \/ request.pane_count > 16)
    THEN Some(HttpError(400, "paneCount must be between 1 and 16"))
    ELSE IF request.action \in {"create_worktree", "create_branch"}
              /\ Trim(request.branch) = << >>
    THEN Some(HttpError(400, "branch is required"))
    ELSE IF request.action = "run_command" /\ Trim(request.command) = << >>
    THEN Some(HttpError(400, "command is required"))
    ELSE IF IsSome(resolve_workspace_error(registry, request.workspace_id))
    THEN resolve_workspace_error(registry, request.workspace_id)
    ELSE IF request.action = "run_command"
              /\ registry[request.workspace_id].runtime_pane_ids = << >>
    THEN Some(HttpError(409, "workspace has no active panes to run commands"))
    ELSE IF request.action = "run_command"
              /\ Len(Trim(request.command)) > AUTOMATION_MAX_COMMAND_BYTES
    THEN Some(HttpError(400, "command is too large"))
    ELSE None

validate_external_command_request(registry, request) ==
    LET ws_error == resolve_workspace_error(registry, request.workspace_id)
    IN  IF IsSome(ws_error) THEN ws_error
        ELSE CASE request.action = "create_panes" ->
                    IF request.pane_count < 1 \/ request.pane_count > 16
                    THEN Some(HttpError(400, "paneCount must be between 1 and 16"))
                    ELSE None
               [] request.action \in {"create_worktree", "create_branch"} ->
                    IF Trim(request.branch) = << >>
                    THEN Some(HttpError(400, "branch is required"))
                    ELSE None
               [] request.action = "run_command" ->
                    IF registry[request.workspace_id].runtime_pane_ids = << >>
                    THEN Some(HttpError(409, "workspace has no active panes to run commands"))
                    ELSE IF Trim(request.command) = << >>
                    THEN Some(HttpError(400, "command is required"))
                    ELSE IF Len(Trim(request.command)) > AUTOMATION_MAX_COMMAND_BYTES
                    THEN Some(HttpError(400, "command is too large"))
                    ELSE None

\* ------------------------------------------------------------------------
\* State.
\* ------------------------------------------------------------------------

VARIABLES
    \* AutomationState (lib.rs:266-273)
    jobs,                \* jobs: job_id -> AutomationJobRecord
    workspace_registry,  \* workspace_registry: workspace_id -> snapshot
    queued_jobs,         \* queued_jobs: AtomicUsize
    queue,               \* contents of the unbounded channel queue_tx -> receiver
    receiver_open,       \* the worker still owns the channel's receiver
    pending_frontend,    \* pending_frontend: job ids that hold a oneshot sender
    oneshot,             \* oneshot channels whose receiver is alive: job_id -> slot
    emitted,             \* "automation:request" events delivered to the UI
    report,              \* what the last automation_report call returned
    sync,                \* the sync_automation_workspaces call holding the write lock
    \* environment of the automation bridge
    env_token,           \* SUPERVIBING_AUTOMATION_TOKEN, Option<String>
    incoming,            \* connections waiting in listener.incoming()
    now,                 \* now_millis()
    next_uuid,           \* the next value Uuid::new_v4 returns
    bind_env,            \* SUPERVIBING_AUTOMATION_BIND, Option<String>
    occupied,            \* ports TcpListener::bind finds in use
    listener,            \* the start of the HTTP server thread and its listener
    \* threads and tasks
    http,                \* the HTTP listener thread
    worker,              \* the automation worker task
    \* observation of the channel and of the worker, for ordering properties
    sent_log,            \* job ids in the order queue_tx.send succeeded
    started_log,         \* job ids in the order the worker set them Running
    \* pane runtime (AppState.panes and the PaneRuntime records)
    panes,               \* panes: pane_id -> index of its Arc<PaneRuntime>
    runtimes,            \* every PaneRuntime allocated, by index
    readers,             \* reader threads: runtime index -> thread state
    tasks,               \* UI command invocations, one per slot
    bcast,               \* the run_command_on_panes call in flight
    \* observation of the pane runtime
    suspended_writes,    \* sources of the writes made while the flag was set
    removed              \* pane ids removed from panes and not inserted since

bindVars ==
    <<bind_env, occupied, listener>>

autoVars ==
    <<jobs, workspace_registry, queued_jobs, queue, receiver_open,
      pending_frontend, oneshot, emitted, env_token, report, sync, bindVars, incoming, now, next_uuid,
      http, worker, sent_log, started_log>>

paneVars ==
    <<panes, runtimes, readers, tasks, suspended_writes, removed>>

vars ==
    <<autoVars, paneVars, bcast>>

\* ------------------------------------------------------------------------
\* Inputs.
\* ------------------------------------------------------------------------

W1 ==
    <<"w", "1">>

W0 ==
    <<"w", "0">>

WBlank ==
    <<" ">>

Snapshot(id, pane_ids) ==
    [workspace_id |-> id, runtime_pane_ids |-> pane_ids]

CreatePanes(ws, n) ==
    [action |-> "create_panes", workspace_id |-> ws, pane_count |-> n]

CreateWorktree(ws, branch, open) ==
    [action |-> "create_worktree", workspace_id |-> ws, mode |-> "newBranch",
     branch |-> branch, base_ref |-> None, open_after_create |-> open]

CreateBranch(ws, branch) ==
    [action |-> "create_branch", workspace_id |-> ws, branch |-> branch,
     base_ref |-> None, checkout |-> None]

RunCommand(ws, command) ==
    [action |-> "run_command", workspace_id |-> ws, command |-> command,
     execute |-> None]

\* An HTTP request as the handler sees it.  head and size classify how the two
\* read loops of handle_automation_http_connection end on the bytes sent.
\* path is the route prefix the handler matches; path_job_id is what follows
\* "/v1/jobs/" (None when blank).
HttpRequest(head, line_ok, method, path, path_job_id, authorization, size, body) ==
    [head |-> head, line_ok |-> line_ok, method |-> method, path |-> path,
     path_job_id |-> path_job_id, authorization |-> authorization,
     size |-> size, body |-> body]

\* serde_json::from_slice::<ExternalCommandRequest>(&body)
InvalidBody ==
    [json |-> "invalid"]

CommandBody(request) ==
    [json |-> "command", request |-> request]

PostCommand(authorization, request) ==
    HttpRequest("ok", TRUE, "POST", "/v1/commands", None, authorization, "ok",
                CommandBody(request))

NoRequest ==
    [head |-> "none"]

NoJob ==
    [job_id |-> 0]

\* ------------------------------------------------------------------------
\* Job store operations.
\* ------------------------------------------------------------------------

IsTerminal(status) ==
    status \in {"succeeded", "failed"}

\* The AutomationJobRecord queue_automation_job builds (lib.rs:1204-1213).
NewJobRecord(job_id, request, t) ==
    [job_id |-> job_id, status |-> "queued", request |-> request,
     result |-> None, error |-> None, created_at_ms |-> t,
     started_at_ms |-> None, finished_at_ms |-> None]

\* A plausible slip: a failed job is put back to "queued" for a retry.
update_requeues_failed(store, job_id, status, result, error, t) ==
    IF job_id \in DOMAIN store
    THEN [store EXCEPT ![job_id] =
            [@ EXCEPT !.status = IF status = "failed" THEN "queued" ELSE status,
                      !.started_at_ms =
                          IF status = "running" THEN Some(t) ELSE @,
                      !.finished_at_ms =
                          IF IsTerminal(status) THEN Some(t) ELSE @,
                      !.result = result,
                      !.error = error]]
    ELSE store

\* A plausible slip: only a success stamps finished_at_ms.
update_stamps_success_only(store, job_id, status, result, error, t) ==
    IF job_id \in DOMAIN store
    THEN [store EXCEPT ![job_id] =
            [@ EXCEPT !.status = status,
                      !.started_at_ms =
                          IF status = "running" THEN Some(t) ELSE @,
                      !.finished_at_ms =
                          IF status = "succeeded" THEN Some(t) ELSE @,
                      !.result = result,
                      !.error = error]]
    ELSE store

\* A plausible slip: the error string is not attached.
update_drops_error(store, job_id, status, result, error, t) ==
    IF job_id \in DOMAIN store
    THEN [store EXCEPT ![job_id] =
            [@ EXCEPT !.status = status,
                      !.started_at_ms =
                          IF status = "running" THEN Some(t) ELSE @,
                      !.finished_at_ms =
                          IF IsTerminal(status) THEN Some(t) ELSE @,
                      !.result = result,
                      !.error = None]]
    ELSE store

\* The write-locked section of update_job_status (lib.rs:1302-1317).
update_job_status(store, job_id, status, result, error, t) ==
    IF job_id \in DOMAIN store
    THEN [store EXCEPT ![job_id] =
            [@ EXCEPT !.status = status,
                      !.started_at_ms =
                          IF status = "running" THEN Some(t) ELSE @,
                      !.finished_at_ms =
                          IF IsTerminal(status) THEN Some(t) ELSE @,
                      !.result = result,
                      !.error = error]]
    ELSE store

\* The (job_id, age key) pairs prune_completed_jobs_with_limit collects.
CompletedJobs(store) ==
    {j \in DOMAIN store : IsTerminal(store[j].status)}

AgeKey(job) ==
    UnwrapOr(job.finished_at_ms, job.created_at_ms)

\* A plausible slip: the filter is dropped, every job is a pruning candidate.
prune_candidates_unfiltered(store) ==
    DOMAIN store

prune_candidates(store) ==
    CompletedJobs(store)

\* The sets of job ids one run of prune_completed_jobs_with_limit may remove:
\* the first remove_count entries of the candidates sorted by age key.  The
\* candidates come out of a HashMap in arbitrary order and the sort is stable,
\* so entries with equal keys may be taken in any order.
prune_removals(store, limit) ==
    LET completed == prune_candidates(store)
        remove_count == Cardinality(completed) - limit
    IN  IF Cardinality(completed) <= limit THEN {{}}
        ELSE {S \in SUBSET completed :
                /\ Cardinality(S) = remove_count
                /\ \A a \in S, b \in completed \ S :
                       AgeKey(store[a]) <= AgeKey(store[b])}

RemoveJobs(store, S) ==
    [j \in DOMAIN store \ S |-> store[j]]

\* The orders in which jobs.iter() may yield the entries of the HashMap.
IterationOrders(store) ==
    {order \in [1..Cardinality(DOMAIN store) -> DOMAIN store] :
        \A i, k \in DOMAIN order : i # k => order[i] # order[k]}

\* lib.rs:1259-1275: the filter_map over jobs.iter(), collected into a Vec of
\* (job_id, finished_at_ms.unwrap_or(created_at_ms)) for the terminal jobs.
RECURSIVE completed_entries(_, _)
completed_entries(store, order) ==
    IF order = << >> THEN << >>
    ELSE LET job == store[Head(order)]
             rest == completed_entries(store, Tail(order))
         IN  IF IsTerminal(job.status)
             THEN <<[job_id |-> job.job_id,
                     finished_at |-> UnwrapOr(job.finished_at_ms,
                                              job.created_at_ms)]>> \o rest
             ELSE rest

\* One insertion of the stable sort: entry goes behind the entries whose key
\* is not greater than its own.
RECURSIVE insert_by_key(_, _)
insert_by_key(sorted, entry) ==
    IF sorted = << >> THEN <<entry>>
    ELSE IF Head(sorted).finished_at <= entry.finished_at
    THEN <<Head(sorted)>> \o insert_by_key(Tail(sorted), entry)
    ELSE <<entry>> \o sorted

\* A plausible slip: the sort is descending, the newest entries come first.
RECURSIVE sort_by_key_descending(_)
sort_by_key_descending(entries) ==
    IF entries = << >> THEN << >>
    ELSE LET sorted == sort_by_key_descending(SubSeq(entries, 1, Len(entries) - 1))
             entry == entries[Len(entries)]
             ahead == SelectSeq(sorted, LAMBDA e : e.finished_at >= entry.finished_at)
             behind == SelectSeq(sorted, LAMBDA e : e.finished_at < entry.finished_at)
         IN  ahead \o <<entry>> \o behind

\* lib.rs:1281: completed.sort_by_key(|(_, finished_at)| *finished_at), a
\* stable ascending sort.
RECURSIVE sort_by_key(_)
sort_by_key(entries) ==
    IF entries = << >> THEN << >>
    ELSE insert_by_key(sort_by_key(SubSeq(entries, 1, Len(entries) - 1)),
                       entries[Len(entries)])

\* Iterator::take(n)
Take(entries, n) ==
    SubSeq(entries, 1, IF n < Len(entries) THEN n ELSE Len(entries))

\* prune_completed_jobs_with_limit (lib.rs:1257-1289): the store after the
\* call, when jobs.iter() yields the entries in `order`.
prune_completed_jobs_with_limit(store, limit, order) ==
    LET completed == completed_entries(store, order)
    IN  IF Len(completed) <= limit THEN store
        ELSE LET sorted == sort_by_key(completed)
                 remove_count == Len(completed) - limit
                 taken == Take(sorted, remove_count)
             IN  RemoveJobs(store, {taken[i].job_id : i \in 1..Len(taken)})

\* sync_automation_workspaces: clear, then insert each snapshot in order.
RECURSIVE InsertAll(_, _)
InsertAll(registry, workspaces) ==
    IF workspaces = << >> THEN registry
    ELSE LET w == Head(workspaces)
             rest == [k \in DOMAIN registry \ {w.workspace_id} |-> registry[k]]
         IN  InsertAll(rest @@ (w.workspace_id :> w), Tail(workspaces))

EmptyMap ==
    [k \in {} |-> k]

\* No sync_automation_workspaces call in flight.
SyncIdle ==
    [pc |-> "idle", old |-> EmptyMap, workspaces |-> << >>, rest |-> << >>]

\* A plausible slip: the registry is read without taking the lock.
registry_lock_ignored(s) ==
    TRUE

\* workspace_registry.read() and .write() return once no writer holds the
\* StdRwLock (lib.rs:1330-1334, 1497, 2390-2394).
registry_lock_free(s) ==
    s.pc = "idle"

\* ------------------------------------------------------------------------
\* HTTP listener thread: handle_automation_http_connection, one connection
\* at a time (the accept loop handles each connection inline).
\* ------------------------------------------------------------------------

\* The thread between connections; status is the response to the last
\* connection (0: the handler returned Err without writing a response).
HttpIdle(status) ==
    [pc |-> "idle", request |-> NoRequest, status |-> status, depth |-> None,
     job_id |-> None, created |-> None]

\* The checks made before routing, in the handler's order (lib.rs:1385-1484):
\* head read loop, empty request, missing terminator, request line,
\* authorization, Content-Length, body read loop.  -1: no check fails.
pre_route_status(request, token_env) ==
    IF request.head = "too_large" THEN 413
    ELSE IF request.head = "empty" THEN 400
    ELSE IF request.head = "unterminated" THEN 0
    ELSE IF ~request.line_ok THEN 400
    ELSE IF IsSome(authorize_automation_request(
                configured_automation_token(token_env),
                IF IsSome(request.authorization)
                THEN Some(Trim(Unwrap(request.authorization)))
                ELSE None))
    THEN 401
    ELSE IF request.size \in {"content_length_too_large", "body_too_large"} THEN 413
    ELSE IF request.size = "read_error" THEN 0
    ELSE -1

\* The match on (method, path) for every route but a command that validates
\* (lib.rs:1486-1564).  -1: POST /v1/commands whose body parsed and validated.
route_status(request, store, registry) ==
    IF request.method = "GET" /\ request.path = "/v1/health" THEN 200
    ELSE IF request.method = "GET" /\ request.path = "/v1/workspaces" THEN 200
    ELSE IF request.method = "POST" /\ request.path = "/v1/commands"
    THEN IF request.body.json # "command" THEN 400
         ELSE LET error == validate_external_command_request(
                               registry, request.body.request)
              IN  IF IsSome(error) THEN Unwrap(error).status_code ELSE -1
    ELSE IF request.method = "GET" /\ request.path = "/v1/jobs/"
    THEN IF ~IsSome(request.path_job_id) THEN 400
         ELSE IF Unwrap(request.path_job_id) \in DOMAIN store THEN 200 ELSE 404
    ELSE 404

\* The connection handler takes the registry's read lock for this request:
\* GET /v1/workspaces, and a command whose workspace id is not blank.
reads_registry(request, token_env) ==
    /\ pre_route_status(request, token_env) = -1
    /\ \/ request.method = "GET" /\ request.path = "/v1/workspaces"
       \/ /\ request.method = "POST" /\ request.path = "/v1/commands"
          /\ request.body.json = "command"
          /\ Trim(request.body.request.workspace_id) # << >>

\* Handle a connection carrying `request`: read and parse it, authorize it
\* and route it; a command that validates goes on to queue_automation_job.
HttpHandle(request) ==
    /\ http.pc = "idle"
    /\ listener.pc = "listening"
    /\ reads_registry(request, env_token) => registry_lock_free(sync)
    /\ LET early == pre_route_status(request, env_token)
           routed == route_status(request, jobs, workspace_registry)
       IN  http' = IF early # -1 THEN HttpIdle(early)
                   ELSE IF routed # -1 THEN HttpIdle(routed)
                   ELSE [pc |-> "queue_check", request |-> request, status |-> 0,
                         depth |-> None, job_id |-> None, created |-> None]
    /\ UNCHANGED <<jobs, workspace_registry, queued_jobs, queue, receiver_open,
                   pending_frontend, oneshot, emitted, env_token, report, sync, bindVars, now, next_uuid,
                   worker, sent_log, started_log, paneVars, bcast>>

\* listener.incoming() yields a connection a client makes now.
HttpAccept(request) ==
    /\ incoming = << >>
    /\ HttpHandle(request)
    /\ UNCHANGED incoming

\* listener.incoming() yields the connection waiting in the backlog.
HttpAcceptBacklog ==
    /\ incoming # << >>
    /\ HttpHandle(Head(incoming))
    /\ incoming' = Tail(incoming)

\* ------------------------------------------------------------------------
\* The read loops of handle_automation_http_connection, read by read.  A
\* connection carries the bytes the client sends: head_bytes up to and
\* including the blank line (terminated) or without one, a Content-Length
\* header or none, and body_bytes after the head.  `request` is what the head
\* and the body parse to.
\* ------------------------------------------------------------------------

WireRequest(request, head_bytes, terminated, content_length, body_bytes) ==
    [request |-> request, head_bytes |-> head_bytes, terminated |-> terminated,
     content_length |-> content_length, body_bytes |-> body_bytes]

\* The bytes the client sends on the connection.
WireBytes(wire) ==
    wire.head_bytes + (IF wire.terminated THEN wire.body_bytes ELSE 0)

\* The variables the connection handler leaves alone before it queues a job.
httpFrame ==
    <<jobs, workspace_registry, queued_jobs, queue, receiver_open,
      pending_frontend, oneshot, emitted, env_token, report, sync, bindVars,
      incoming, now, next_uuid, worker, sent_log, started_log, paneVars, bcast>>

\* lib.rs:1379-1387: the accept loop hands the connection to the handler;
\* request_bytes is empty.  request_bytes and body are the lengths of the
\* two vectors.
HttpConnect(wire) ==
    /\ http.pc = "idle"
    /\ listener.pc = "listening"
    /\ incoming = << >>
    /\ http' = [pc |-> "read_head", request |-> wire.request, wire |-> wire,
                request_bytes |-> 0, body |-> 0, status |-> 0, depth |-> None,
                job_id |-> None, created |-> None]
    /\ UNCHANGED httpFrame

\* What stream.read(&mut buffer) returns: Err (-1 here) or Ok(bytes_read).
ReadResults ==
    -1..READ_BUFFER_BYTES

\* request_bytes.windows(4).any(|window| window == b"\r\n\r\n")
head_is_complete(wire, request_bytes) ==
    wire.terminated /\ request_bytes >= wire.head_bytes

\* lib.rs:1388-1411: one turn of the head loop.  stream.read returns an
\* error, or 0 bytes (end of stream; WouldBlock and TimedOut count as 0), or
\* up to a buffer of the bytes not yet read.
HttpReadHead(bytes_read) ==
    /\ http.pc = "read_head"
    /\ bytes_read \in ReadResults
    /\ bytes_read <= WireBytes(http.wire) - http.request_bytes
    /\ http' =
         IF bytes_read = -1 THEN HttpIdle(0)
         ELSE IF bytes_read = 0 THEN [http EXCEPT !.pc = "parse_head"]
         ELSE LET len == http.request_bytes + bytes_read
              IN  IF head_is_complete(http.wire, len)
                  THEN [http EXCEPT !.pc = "parse_head", !.request_bytes = len]
                  ELSE IF len > AUTOMATION_HTTP_MAX_BODY_BYTES
                  THEN HttpIdle(413)
                  ELSE [http EXCEPT !.request_bytes = len]
    /\ UNCHANGED httpFrame

\* lib.rs:1413-1466: the checks between the two loops, in order: empty
\* request, missing blank line, request line, authorization, Content-Length;
\* then body starts as the bytes read behind the head.
HttpParseHead ==
    /\ http.pc = "parse_head"
    /\ LET wire == http.wire
           early == pre_route_status(http.request, env_token)
           content_length == UnwrapOr(wire.content_length, 0)
           body == http.request_bytes - wire.head_bytes
       IN  http' =
             IF http.request_bytes = 0 THEN HttpIdle(400)
             ELSE IF ~head_is_complete(wire, http.request_bytes)
             THEN HttpIdle(0)
             ELSE IF early # -1 THEN HttpIdle(early)
             ELSE IF content_length > AUTOMATION_HTTP_MAX_BODY_BYTES
             THEN HttpIdle(413)
             ELSE [http EXCEPT
                     !.body = body,
                     !.pc = IF body < content_length THEN "read_body"
                            ELSE "route"]
    /\ UNCHANGED httpFrame

\* lib.rs:1467-1484: one turn of the body loop, entered while body is
\* shorter than Content-Length.  Every read error ends the handler here.
HttpReadBody(bytes_read) ==
    /\ http.pc = "read_body"
    /\ bytes_read \in ReadResults
    /\ bytes_read <= WireBytes(http.wire) - http.request_bytes
    /\ http' =
         IF bytes_read = -1 THEN HttpIdle(0)
         ELSE IF bytes_read = 0 THEN [http EXCEPT !.pc = "route"]
         ELSE LET len == http.body + bytes_read
              IN  IF len > AUTOMATION_HTTP_MAX_BODY_BYTES THEN HttpIdle(413)
                  ELSE [http EXCEPT
                          !.body = len,
                          !.request_bytes = @ + bytes_read,
                          !.pc = IF len < UnwrapOr(http.wire.content_length, 0)
                                 THEN "read_body" ELSE "route"]
    /\ UNCHANGED httpFrame

\* lib.rs:1486-1564: the match on (method, path); a command that validates
\* goes on to queue_automation_job.
HttpRouteRequest ==
    /\ http.pc = "route"
    /\ reads_registry(http.request, env_token) => registry_lock_free(sync)
    /\ LET routed == route_status(http.request, jobs, workspace_registry)
       IN  http' = IF routed # -1 THEN HttpIdle(routed)
                   ELSE [pc |-> "queue_check", request |-> http.request,
                         status |-> 0, depth |-> None, job_id |-> None,
                         created |-> None]
    /\ UNCHANGED httpFrame

\* A plausible slip: the cap is compared with > instead of >=.
queue_is_full_off_by_one(depth) ==
    depth > AUTOMATION_QUEUE_MAX

\* lib.rs:1199
queue_is_full(depth) ==
    depth >= AUTOMATION_QUEUE_MAX

\* A plausible slip: the record is inserted before the capacity check.
HttpQueueCheckInsertsFirst ==
    /\ http.pc = "queue_check"
    /\ next_uuid <= MaxJobs
    /\ jobs' = jobs @@ (next_uuid :>
                 NewJobRecord(next_uuid, http.request.body.request, now))
    /\ IF queue_is_full(queued_jobs)
       THEN /\ http' = HttpIdle(429)
            /\ UNCHANGED next_uuid
       ELSE /\ http' = [http EXCEPT !.pc = "insert",
                                    !.depth = Some(queued_jobs),
                                    !.job_id = Some(next_uuid),
                                    !.created = Some(now)]
            /\ next_uuid' = next_uuid + 1
    /\ UNCHANGED <<workspace_registry, queued_jobs, queue, receiver_open,
                   pending_frontend, oneshot, emitted, env_token, report, sync,
                   bindVars, incoming, now, worker, sent_log, started_log,
                   paneVars, bcast>>

\* queue_automation_job, lib.rs:1199-1213: load the counter; 429 when full,
\* otherwise draw the job id and read the clock for the record.
HttpQueueCheck ==
    /\ http.pc = "queue_check"
    /\ IF queue_is_full(queued_jobs)
       THEN /\ http' = HttpIdle(429)
            /\ UNCHANGED next_uuid
       ELSE /\ next_uuid <= MaxJobs
            /\ http' = [http EXCEPT !.pc = "insert",
                                    !.depth = Some(queued_jobs),
                                    !.job_id = Some(next_uuid),
                                    !.created = Some(now)]
            /\ next_uuid' = next_uuid + 1
    /\ UNCHANGED <<jobs, workspace_registry, queued_jobs, queue, receiver_open,
                   pending_frontend, oneshot, emitted, env_token, report, sync, bindVars, incoming, now,
                   worker, sent_log, started_log, paneVars, bcast>>

\* A plausible slip: the record is not in the store when the job is sent.
HttpInsertJobSkipped ==
    /\ http.pc = "insert"
    /\ http' = [http EXCEPT !.pc = "increment"]
    /\ UNCHANGED <<jobs, workspace_registry, queued_jobs, queue, receiver_open,
                   pending_frontend, oneshot, emitted, env_token, report, sync,
                   bindVars, incoming, now, next_uuid, worker, sent_log,
                   started_log, paneVars, bcast>>

\* lib.rs:1215-1221: insert the record under the write lock.
HttpInsertJob ==
    /\ http.pc = "insert"
    /\ jobs' = jobs @@ (Unwrap(http.job_id) :>
                 NewJobRecord(Unwrap(http.job_id), http.request.body.request,
                              Unwrap(http.created)))
    /\ http' = [http EXCEPT !.pc = "increment"]
    /\ UNCHANGED <<workspace_registry, queued_jobs, queue, receiver_open,
                   pending_frontend, oneshot, emitted, env_token, report, sync, bindVars, incoming, now,
                   next_uuid, worker, sent_log, started_log, paneVars, bcast>>

\* lib.rs:1223: fetch_add(1).
HttpIncrement ==
    /\ http.pc = "increment"
    /\ queued_jobs' = queued_jobs + 1
    /\ http' = [http EXCEPT !.pc = "send"]
    /\ UNCHANGED <<jobs, workspace_registry, queue, receiver_open,
                   pending_frontend, oneshot, emitted, env_token, report, sync, bindVars, incoming, now,
                   next_uuid, worker, sent_log, started_log, paneVars, bcast>>

\* lib.rs:1224-1243: send into the channel; 202 when the receiver is alive,
\* otherwise start the rollback.
HttpSend ==
    /\ http.pc = "send"
    /\ IF receiver_open
       THEN /\ queue' = Append(queue, [job_id |-> Unwrap(http.job_id),
                                       request |-> http.request.body.request])
            /\ sent_log' = Append(sent_log, Unwrap(http.job_id))
            /\ http' = HttpIdle(202)
       ELSE /\ http' = [http EXCEPT !.pc = "rollback_decrement"]
            /\ UNCHANGED <<queue, sent_log>>
    /\ UNCHANGED <<jobs, workspace_registry, queued_jobs, receiver_open,
                   pending_frontend, oneshot, emitted, env_token, report, sync, bindVars, incoming, now,
                   next_uuid, worker, started_log, paneVars, bcast>>

\* A plausible slip: the rollback forgets the counter.
HttpRollbackKeepsCount ==
    /\ http.pc = "rollback_decrement"
    /\ http' = [http EXCEPT !.pc = "rollback_remove"]
    /\ UNCHANGED <<jobs, workspace_registry, queued_jobs, queue, receiver_open,
                   pending_frontend, oneshot, emitted, env_token, report, sync,
                   bindVars, incoming, now, next_uuid, worker, sent_log,
                   started_log, paneVars, bcast>>

\* lib.rs:1228: fetch_sub(1) of the rollback.
HttpRollbackDecrement ==
    /\ http.pc = "rollback_decrement"
    /\ queued_jobs' = queued_jobs - 1
    /\ http' = [http EXCEPT !.pc = "rollback_remove"]
    /\ UNCHANGED <<jobs, workspace_registry, queue, receiver_open,
                   pending_frontend, oneshot, emitted, env_token, report, sync, bindVars, incoming, now,
                   next_uuid, worker, sent_log, started_log, paneVars, bcast>>

\* lib.rs:1229-1237: remove the record and answer 500.
HttpRollbackRemove ==
    /\ http.pc = "rollback_remove"
    /\ jobs' = RemoveJobs(jobs, {Unwrap(http.job_id)})
    /\ http' = HttpIdle(500)
    /\ UNCHANGED <<workspace_registry, queued_jobs, queue, receiver_open,
                   pending_frontend, oneshot, emitted, env_token, report, sync, bindVars, incoming, now,
                   next_uuid, worker, sent_log, started_log, paneVars, bcast>>

\* ------------------------------------------------------------------------
\* Pane runtime: the tauri commands spawn_pane, write_pane_input, resize_pane,
\* close_pane, suspend_pane, resume_pane (lib.rs:2047-2339) and the reader
\* threads.  A command occupies a slot of `tasks` from its invocation to the
\* next invocation in that slot; its result stays readable in between.
\* ------------------------------------------------------------------------

TaskIdle ==
    [op |-> "none", pane_id |-> "", pc |-> "idle", pane |-> 0,
     result |-> "none"]

TaskAt(op, pane_id, pc, pane) ==
    [op |-> op, pane_id |-> pane_id, pc |-> pc, pane |-> pane,
     result |-> "pending"]

\* The command returns; its clone of the Arc<PaneRuntime> is dropped.
TaskReturn(task, result) ==
    [task EXCEPT !.pc = "done", !.pane = 0, !.result = result]

SlotFree(slot) ==
    tasks[slot].pc \in {"idle", "done"}

\* PaneRuntime { writer, master, child, suspended } as spawn_pane builds it:
\* the state of the child process and the flag.  The master is a mutex held
\* for the length of one resize; the pty's size is not part of the model.
\* writer is the Mutex around the pty's writer: the call that holds it (0:
\* unlocked), the number of calls that have acquired it, and what the calls
\* that take the lock step by step have written through it, in order.
\* reader_pane_id is the id the reader thread of this record captures
\* (pane_id_for_task).
\* entry is history, not a field of the struct: "none" until the record is
\* inserted in the registry, "inserted" while it is there, and afterwards the
\* removal that took it out: "close" (close_pane), "reader" (the reader's
\* cleanup task) or "cleanup" (spawn_pane after the reader failed to start).
PaneRuntime(pane_id) ==
    [child |-> "running", suspended |-> FALSE, reader_pane_id |-> pane_id,
     entry |-> "none",
     writer |-> [holder |-> 0, calls |-> 0, written |-> << >>]]

\* The observation after `source` wrote to the writer of `pane`.
WritesAfter(pane, source) ==
    IF runtimes[pane].suspended THEN suspended_writes \cup {source}
    ELSE suspended_writes

\* panes.get(&pane_id).cloned()
pane_lookup(registry, pane_id) ==
    IF pane_id \in DOMAIN registry THEN Some(registry[pane_id]) ELSE None

\* A plausible slip: insert without the contains_key test.
insert_pane_overwrites(registry, pane_id, pane) ==
    [inserted |-> TRUE,
     registry |-> [id \in DOMAIN registry \cup {pane_id} |->
                      IF id = pane_id THEN pane ELSE registry[id]]]

\* lib.rs:2116-2124: under the write lock, insert unless the id is present.
insert_pane(registry, pane_id, pane) ==
    IF pane_id \in DOMAIN registry
    THEN [inserted |-> FALSE, registry |-> registry]
    ELSE [inserted |-> TRUE,
          registry |-> [id \in DOMAIN registry \cup {pane_id} |->
                           IF id = pane_id THEN pane ELSE registry[id]]]

\* A plausible slip: the map is cleared instead of one id being removed.
remove_pane_clears_map(registry, pane_id) ==
    [id \in {} |-> registry[id]]

\* A plausible slip: the entry is read but stays in the map.
remove_pane_keeps_entry(registry, pane_id) ==
    registry

\* panes.remove(&pane_id): the map afterwards.
remove_pane(registry, pane_id) ==
    [id \in DOMAIN registry \ {pane_id} |-> registry[id]]

\* The records after panes.remove(&pane_id) on `registry` by `remover`: the
\* record the id named, if any, is marked with the removal that took it out.
RuntimesAfterRemove(registry, pane_id, remover) ==
    IF pane_id \in DOMAIN registry
    THEN [runtimes EXCEPT ![registry[pane_id]].entry = remover]
    ELSE runtimes

\* The ids removed so far, after panes.remove(&pane_id) on `registry`.
RemovedAfter(registry, pane_id) ==
    IF pane_id \in DOMAIN registry THEN removed \cup {pane_id} ELSE removed

\* spawn_pane, lib.rs:2053-2114: open the pty, spawn the child, write the
\* init command and build the PaneRuntime (its flag is false); any failure
\* returns a Pty error.
SpawnPane(slot, pane_id, setup_ok) ==
    /\ SlotFree(slot)
    /\ IF setup_ok
       THEN /\ Len(runtimes) < MaxRuntimes
            /\ runtimes' = Append(runtimes, PaneRuntime(pane_id))
            /\ tasks' = [tasks EXCEPT ![slot] =
                 TaskAt("spawn_pane", pane_id, "insert", Len(runtimes) + 1)]
       ELSE /\ tasks' = [tasks EXCEPT ![slot] =
                 TaskReturn(TaskAt("spawn_pane", pane_id, "setup", 0), "pty")]
            /\ UNCHANGED runtimes
    /\ UNCHANGED <<autoVars, panes, readers, suspended_writes, removed,
                   bcast>>

\* lib.rs:2116-2124
SpawnInsert(slot) ==
    /\ tasks[slot].pc = "insert"
    /\ LET task == tasks[slot]
           r == insert_pane(panes, task.pane_id, task.pane)
       IN  /\ panes' = r.registry
           /\ removed' = IF r.inserted THEN removed \ {task.pane_id}
                         ELSE removed
           /\ runtimes' = IF r.inserted
                          THEN [runtimes EXCEPT ![task.pane].entry = "inserted"]
                          ELSE runtimes
           /\ tasks' = [tasks EXCEPT ![slot].pc =
                IF r.inserted THEN "reader" ELSE "conflict"]
    /\ UNCHANGED <<autoVars, readers, suspended_writes, bcast>>

\* lib.rs:2125-2129: the id was taken; kill the new child, return Conflict.
SpawnConflict(slot) ==
    /\ tasks[slot].pc = "conflict"
    /\ runtimes' = [runtimes EXCEPT ![tasks[slot].pane].child = "killed"]
    /\ tasks' = [tasks EXCEPT ![slot] = TaskReturn(@, "conflict")]
    /\ UNCHANGED <<autoVars, panes, readers, suspended_writes, removed, bcast>>

\* lib.rs:2131-2180, 2193-2197: start the reader thread.
SpawnReader(slot, thread_ok) ==
    /\ tasks[slot].pc = "reader"
    /\ IF thread_ok
       THEN /\ readers' = [r \in DOMAIN readers \cup {tasks[slot].pane} |->
                            IF r = tasks[slot].pane THEN "running"
                            ELSE readers[r]]
            /\ tasks' = [tasks EXCEPT ![slot] = TaskReturn(@, "ok")]
       ELSE /\ tasks' = [tasks EXCEPT ![slot].pc = "reader_failed"]
            /\ UNCHANGED readers
    /\ UNCHANGED <<autoVars, panes, runtimes, suspended_writes, removed, bcast>>

\* lib.rs:2180-2184: the thread did not start; take the id out again.
SpawnReaderFailedRemove(slot) ==
    /\ tasks[slot].pc = "reader_failed"
    /\ panes' = remove_pane(panes, tasks[slot].pane_id)
    /\ removed' = RemovedAfter(panes, tasks[slot].pane_id)
    /\ runtimes' = RuntimesAfterRemove(panes, tasks[slot].pane_id, "cleanup")
    /\ tasks' = [tasks EXCEPT ![slot].pc = "reader_failed_kill"]
    /\ UNCHANGED <<autoVars, readers, suspended_writes, bcast>>

\* lib.rs:2186-2190
SpawnReaderFailedKill(slot) ==
    /\ tasks[slot].pc = "reader_failed_kill"
    /\ runtimes' = [runtimes EXCEPT ![tasks[slot].pane].child = "killed"]
    /\ tasks' = [tasks EXCEPT ![slot] = TaskReturn(@, "system")]
    /\ UNCHANGED <<autoVars, panes, readers, suspended_writes, removed, bcast>>

\* The lookup write_pane_input, resize_pane, suspend_pane and resume_pane
\* start with: the pane, or NotFound (lib.rs:2205-2210, 2230-2235, 2282-2287,
\* 2314-2319).
LookupOrNotFound(op, pane_id, pc) ==
    LET pane == pane_lookup(panes, pane_id)
    IN  IF IsSome(pane) THEN TaskAt(op, pane_id, pc, Unwrap(pane))
        ELSE TaskReturn(TaskAt(op, pane_id, pc, 0), "not_found")

\* write_pane_input, lib.rs:2205-2210
WritePaneInput(slot, pane_id) ==
    /\ SlotFree(slot)
    /\ tasks' = [tasks EXCEPT ![slot] =
         LookupOrNotFound("write_pane_input", pane_id, "write")]
    /\ UNCHANGED <<autoVars, panes, runtimes, readers, suspended_writes, removed,
                   bcast>>

\* lib.rs:2212-2225: with the writer locked: write, newline, flush.  io is
\* "ok", "write_failed" (no byte went out) or "flush_failed".
WriteLocked(slot, io) ==
    /\ tasks[slot].pc = "write"
    /\ suspended_writes' = IF io = "write_failed" THEN suspended_writes
                           ELSE WritesAfter(tasks[slot].pane, "input")
    /\ tasks' = [tasks EXCEPT ![slot] =
         TaskReturn(@, IF io = "ok" THEN "ok" ELSE "pty")]
    /\ UNCHANGED <<autoVars, panes, runtimes, readers, removed, bcast>>

\* ------------------------------------------------------------------------
\* The writes of write_pane_input and run_command_on_panes statement by
\* statement: lock the pane's writer, write the data, write the newline when
\* `execute` is set, flush; the guard is dropped when the block is left.
\* ------------------------------------------------------------------------

\* A plausible slip: the writer is used without taking its lock.
writer_lock_skipped(writer) ==
    TRUE

\* pane.writer.lock().await returns once no call holds the tokio Mutex.
writer_is_unlocked(writer) ==
    writer.holder = 0

\* The guard is taken: the call is the next to have acquired the lock.
writer_acquired(writer) ==
    [writer EXCEPT !.holder = writer.calls + 1, !.calls = @ + 1]

\* writer.write_all(..) succeeded: `part` of `call` went to the pty.
writer_wrote(writer, call, source, part) ==
    [writer EXCEPT !.written =
        Append(@, [call |-> call, source |-> source, part |-> part])]

\* The guard is dropped.
writer_released(writer) ==
    [writer EXCEPT !.holder = 0]

\* The statement after a successful write_all of the data.
after_data(execute) ==
    IF execute THEN "write_newline" ELSE "write_flush"

\* lib.rs:2212: write_pane_input acquires the lock.  execute is
\* request.execute.unwrap_or(false).
InputWriterLock(slot, execute) ==
    /\ tasks[slot].pc = "write"
    /\ LET pane == tasks[slot].pane
       IN  /\ writer_is_unlocked(runtimes[pane].writer)
           /\ runtimes[pane].writer.calls < MaxWrites
           /\ runtimes' = [runtimes EXCEPT ![pane].writer = writer_acquired(@)]
           /\ tasks' = [tasks EXCEPT ![slot] =
                [pc |-> "write_data", execute |-> execute,
                 call |-> runtimes[pane].writer.calls + 1] @@ @]
    /\ UNCHANGED <<autoVars, panes, readers, suspended_writes, removed, bcast>>

\* The command returns `result`; the guard and the Arc are dropped.
InputReturn(slot, result) ==
    /\ runtimes' = [runtimes EXCEPT ![tasks[slot].pane].writer =
                      writer_released(@)]
    /\ tasks' = [tasks EXCEPT ![slot] =
         TaskReturn(TaskAt(@.op, @.pane_id, @.pc, 0), result)]

\* lib.rs:2213-2215: write_all(request.data).
InputWriteData(slot, io_ok) ==
    /\ tasks[slot].pc = "write_data"
    /\ IF io_ok
       THEN /\ runtimes' = [runtimes EXCEPT ![tasks[slot].pane].writer =
                   writer_wrote(@, tasks[slot].call, "input", "data")]
            /\ tasks' = [tasks EXCEPT ![slot].pc = after_data(tasks[slot].execute)]
       ELSE InputReturn(slot, "pty")
    /\ UNCHANGED <<autoVars, panes, readers, suspended_writes, removed, bcast>>

\* lib.rs:2216-2220: write_all(b"\n").
InputWriteNewline(slot, io_ok) ==
    /\ tasks[slot].pc = "write_newline"
    /\ IF io_ok
       THEN /\ runtimes' = [runtimes EXCEPT ![tasks[slot].pane].writer =
                   writer_wrote(@, tasks[slot].call, "input", "newline")]
            /\ tasks' = [tasks EXCEPT ![slot].pc = "write_flush"]
       ELSE InputReturn(slot, "pty")
    /\ UNCHANGED <<autoVars, panes, readers, suspended_writes, removed, bcast>>

\* lib.rs:2221-2225: flush and return.
InputFlush(slot, io_ok) ==
    /\ tasks[slot].pc = "write_flush"
    /\ InputReturn(slot, IF io_ok THEN "ok" ELSE "pty")
    /\ UNCHANGED <<autoVars, panes, readers, suspended_writes, removed, bcast>>

\* resize_pane, lib.rs:2230-2235
ResizePane(slot, pane_id) ==
    /\ SlotFree(slot)
    /\ tasks' = [tasks EXCEPT ![slot] =
         LookupOrNotFound("resize_pane", pane_id, "resize")]
    /\ UNCHANGED <<autoVars, panes, runtimes, readers, suspended_writes, removed,
                   bcast>>

\* lib.rs:2237-2245: lock the master and resize the pty.
ResizeMaster(slot, resize_ok) ==
    /\ tasks[slot].pc = "resize"
    /\ tasks' = [tasks EXCEPT ![slot] =
         TaskReturn(@, IF resize_ok THEN "ok" ELSE "pty")]
    /\ UNCHANGED <<autoVars, panes, runtimes, readers, suspended_writes,
                   removed, bcast>>

\* close_pane, lib.rs:2250-2255: remove the id under the write lock.
ClosePane(slot, pane_id) ==
    /\ SlotFree(slot)
    /\ tasks' = [tasks EXCEPT ![slot] =
         LookupOrNotFound("close_pane", pane_id, "kill")]
    /\ panes' = remove_pane(panes, pane_id)
    /\ removed' = RemovedAfter(panes, pane_id)
    /\ runtimes' = RuntimesAfterRemove(panes, pane_id, "close")
    /\ UNCHANGED <<autoVars, readers, suspended_writes, bcast>>

\* lib.rs:2257-2260: kill the child; the child is gone whether or not kill
\* reports an error.
CloseKill(slot, kill_ok) ==
    /\ tasks[slot].pc = "kill"
    /\ runtimes' = [runtimes EXCEPT ![tasks[slot].pane].child = "killed"]
    /\ tasks' = [tasks EXCEPT ![slot] =
         TaskReturn(@, IF kill_ok THEN "ok" ELSE "pty")]
    /\ UNCHANGED <<autoVars, panes, readers, suspended_writes, removed, bcast>>

\* suspend_pane, lib.rs:2282-2287
SuspendPane(slot, pane_id) ==
    /\ SlotFree(slot)
    /\ tasks' = [tasks EXCEPT ![slot] =
         LookupOrNotFound("suspend_pane", pane_id, "signal")]
    /\ UNCHANGED <<autoVars, panes, runtimes, readers, suspended_writes, removed,
                   bcast>>

\* resume_pane, lib.rs:2314-2319
ResumePane(slot, pane_id) ==
    /\ SlotFree(slot)
    /\ tasks' = [tasks EXCEPT ![slot] =
         LookupOrNotFound("resume_pane", pane_id, "signal")]
    /\ UNCHANGED <<autoVars, panes, runtimes, readers, suspended_writes, removed,
                   bcast>>

\* lib.rs:2289-2303, 2321-2335: read the child's pid and send SIGSTOP
\* (suspend) or SIGCONT (resume).  outcome is "ok", "no_pid" or
\* "signal_failed"; a signal to a live child does not fail.
SignalChild(slot, outcome) ==
    /\ tasks[slot].pc = "signal"
    /\ LET task == tasks[slot]
           child == runtimes[task.pane].child
       IN  /\ outcome = "signal_failed" => child = "killed"
           /\ runtimes' =
                IF outcome = "ok" /\ child # "killed"
                THEN [runtimes EXCEPT ![task.pane].child =
                        IF task.op = "suspend_pane" THEN "stopped"
                        ELSE "running"]
                ELSE runtimes
           /\ tasks' = [tasks EXCEPT ![slot] =
                IF outcome = "ok" THEN [task EXCEPT !.pc = "store"]
                ELSE TaskReturn(task, "system")]
    /\ UNCHANGED <<autoVars, panes, readers, suspended_writes, removed, bcast>>

\* lib.rs:2305-2306, 2337-2338: pane.suspended.store(..); Ok(())
StoreSuspended(slot) ==
    /\ tasks[slot].pc = "store"
    /\ runtimes' = [runtimes EXCEPT ![tasks[slot].pane].suspended =
                      (tasks[slot].op = "suspend_pane")]
    /\ tasks' = [tasks EXCEPT ![slot] = TaskReturn(@, "ok")]
    /\ UNCHANGED <<autoVars, panes, readers, suspended_writes, removed, bcast>>

\* lib.rs:2138-2177: the reader thread's read returns EOF or an error, or the
\* output channel is closed; the loop breaks and the task the thread spawns
\* removes the pane id.
ReaderEvict(pane) ==
    /\ pane \in DOMAIN readers
    /\ readers[pane] = "running"
    /\ panes' = remove_pane(panes, runtimes[pane].reader_pane_id)
    /\ removed' = RemovedAfter(panes, runtimes[pane].reader_pane_id)
    /\ runtimes' = RuntimesAfterRemove(panes, runtimes[pane].reader_pane_id,
                                       "reader")
    /\ readers' = [readers EXCEPT ![pane] = "exited"]
    /\ UNCHANGED <<autoVars, tasks, suspended_writes, bcast>>

\* The child of a pane exits on its own.
ChildExits(pane) ==
    /\ pane \in 1..Len(runtimes)
    /\ runtimes[pane].child \in {"running", "stopped"}
    /\ runtimes' = [runtimes EXCEPT ![pane].child = "exited"]
    /\ UNCHANGED <<autoVars, panes, readers, tasks, suspended_writes, removed,
                   bcast>>

\* lib.rs:2138-2177: the loop of the reader thread ends and the thread spawns
\* the cleanup task on the async runtime.  cause is "eof" (a read of 0
\* bytes), "error" (a failed read) or "send_rejected" (the event sink
\* refused an output event).  The pty reads EOF or fails once the child is
\* gone; the sink can refuse an event at any time.
ReaderTerminate(pane, cause) ==
    /\ pane \in DOMAIN readers
    /\ readers[pane] = "running"
    /\ cause \in {"eof", "error"} => runtimes[pane].child \in {"exited", "killed"}
    /\ readers' = [readers EXCEPT ![pane] = "cleanup"]
    /\ UNCHANGED <<autoVars, panes, runtimes, tasks, suspended_writes, removed,
                   bcast>>

\* A plausible slip: the cleanup task takes the lock and removes nothing.
ReaderCleanupRemovesNothing(pane) ==
    /\ pane \in DOMAIN readers
    /\ readers[pane] = "cleanup"
    /\ readers' = [readers EXCEPT ![pane] = "exited"]
    /\ UNCHANGED <<autoVars, panes, runtimes, tasks, suspended_writes, removed,
                   bcast>>

\* lib.rs:2172-2177: the cleanup task: panes.remove(&cleanup_pane_id) under
\* the write lock.
ReaderCleanup(pane) ==
    /\ pane \in DOMAIN readers
    /\ readers[pane] = "cleanup"
    /\ panes' = remove_pane(panes, runtimes[pane].reader_pane_id)
    /\ removed' = RemovedAfter(panes, runtimes[pane].reader_pane_id)
    /\ runtimes' = RuntimesAfterRemove(panes, runtimes[pane].reader_pane_id,
                                       "reader")
    /\ readers' = [readers EXCEPT ![pane] = "exited"]
    /\ UNCHANGED <<autoVars, tasks, suspended_writes, bcast>>

\* ------------------------------------------------------------------------
\* run_command_on_panes (lib.rs:1596-1654): one call in flight, started by
\* the worker (RunCommand job) or by the UI (run_global_command).
\* ------------------------------------------------------------------------

BcastIdle ==
    [pc |-> "idle", caller |-> "none", pane_ids |-> << >>, i |-> 1, pane |-> 0,
     results |-> << >>]

BcastStart(caller, pane_ids) ==
    [pc |-> IF pane_ids = << >> THEN "done" ELSE "lookup", caller |-> caller, pane_ids |-> pane_ids, i |-> 1,
     pane |-> 0, results |-> << >>]

PaneCommandResult(pane_id, ok, error) ==
    [pane_id |-> pane_id, ok |-> ok, error |-> error]

\* A plausible slip: `break` instead of `continue`, the loop ends at the first
\* pane that is skipped.
bcast_break_on_skip(b, result) ==
    [b EXCEPT !.results = Append(@, result), !.i = Len(b.pane_ids) + 1,
              !.pane = 0, !.pc = "done"]

\* results.push(..); continue -- and `results` is returned when the ids are
\* exhausted.
bcast_push_continue(b, result) ==
    [b EXCEPT !.results = Append(@, result), !.i = @ + 1, !.pane = 0,
              !.pc = IF b.i + 1 > Len(b.pane_ids) THEN "done" ELSE "lookup"]

\* results.push(..) at the end of the loop body.
bcast_push(b, result) ==
    [b EXCEPT !.results = Append(@, result), !.i = @ + 1, !.pane = 0,
              !.pc = IF b.i + 1 > Len(b.pane_ids) THEN "done" ELSE "lookup"]

\* lib.rs:1603-1616: next id; read-lock the registry and look the pane up.
BcastLookup ==
    /\ bcast.pc = "lookup"
    /\ LET pane_id == bcast.pane_ids[bcast.i]
           pane == pane_lookup(panes, pane_id)
       IN  bcast' = IF IsSome(pane)
                    THEN [bcast EXCEPT !.pc = "check", !.pane = Unwrap(pane)]
                    ELSE bcast_push_continue(
                             bcast, PaneCommandResult(pane_id, FALSE,
                                                      Some("pane not found")))
    /\ UNCHANGED <<autoVars, paneVars>>

\* lib.rs:1618-1625: skip the pane when its suspended flag is set.
BcastCheckSuspended ==
    /\ bcast.pc = "check"
    /\ bcast' = IF runtimes[bcast.pane].suspended
                THEN bcast_push_continue(
                         bcast, PaneCommandResult(bcast.pane_ids[bcast.i],
                                                  FALSE,
                                                  Some("pane is suspended")))
                ELSE [bcast EXCEPT !.pc = "write"]
    /\ UNCHANGED <<autoVars, paneVars>>

\* lib.rs:1627-1650: with the writer locked: write the command, the newline,
\* flush; push the outcome.
BcastWrite(io) ==
    /\ bcast.pc = "write"
    /\ suspended_writes' = IF io = "write_failed" THEN suspended_writes
                           ELSE WritesAfter(bcast.pane, "broadcast")
    /\ bcast' = bcast_push(
           bcast, PaneCommandResult(bcast.pane_ids[bcast.i], io = "ok",
                                    IF io = "ok" THEN None ELSE Some(io)))
    /\ UNCHANGED <<autoVars, panes, runtimes, readers, tasks, removed>>

\* lib.rs:1627: run_command_on_panes acquires the lock of the pane it is at.
BcastWriterLock ==
    /\ bcast.pc = "write"
    /\ writer_is_unlocked(runtimes[bcast.pane].writer)
    /\ runtimes[bcast.pane].writer.calls < MaxWrites
    /\ runtimes' = [runtimes EXCEPT ![bcast.pane].writer = writer_acquired(@)]
    /\ bcast' = [pc |-> "write_data",
                 call |-> runtimes[bcast.pane].writer.calls + 1] @@ bcast
    /\ UNCHANGED <<autoVars, panes, readers, tasks, suspended_writes, removed>>

\* lib.rs:1638-1650: the closure has returned `io`; the outcome is pushed and
\* the guard dropped at the end of the loop body.
BcastWriteReturn(io) ==
    /\ runtimes' = [runtimes EXCEPT ![bcast.pane].writer = writer_released(@)]
    /\ bcast' = bcast_push(
           bcast, PaneCommandResult(bcast.pane_ids[bcast.i], io = "ok",
                                    IF io = "ok" THEN None ELSE Some(io)))

\* lib.rs:1629-1631: write_all(command).
BcastWriteData(io_ok) ==
    /\ bcast.pc = "write_data"
    /\ IF io_ok
       THEN /\ runtimes' = [runtimes EXCEPT ![bcast.pane].writer =
                   writer_wrote(@, bcast.call, "broadcast", "data")]
            /\ bcast' = [bcast EXCEPT !.pc = after_data(bcast.execute)]
       ELSE BcastWriteReturn("write_failed")
    /\ UNCHANGED <<autoVars, panes, readers, tasks, suspended_writes, removed>>

\* lib.rs:1632-1634: write_all(b"\n") when execute is set.
BcastWriteNewline(io_ok) ==
    /\ bcast.pc = "write_newline"
    /\ IF io_ok
       THEN /\ runtimes' = [runtimes EXCEPT ![bcast.pane].writer =
                   writer_wrote(@, bcast.call, "broadcast", "newline")]
            /\ bcast' = [bcast EXCEPT !.pc = "write_flush"]
       ELSE BcastWriteReturn("write_failed")
    /\ UNCHANGED <<autoVars, panes, readers, tasks, suspended_writes, removed>>

\* lib.rs:1635-1637: flush.
BcastFlush(io_ok) ==
    /\ bcast.pc = "write_flush"
    /\ BcastWriteReturn(IF io_ok THEN "ok" ELSE "flush_failed")
    /\ UNCHANGED <<autoVars, panes, readers, tasks, suspended_writes, removed>>

\* run_global_command with its `execute` argument, which
\* run_command_on_panes takes along to every pane.
RunGlobalCommandExecute(pane_ids, execute) ==
    /\ bcast.pc = "idle"
    /\ bcast' = [execute |-> execute] @@ BcastStart("ui", pane_ids)
    /\ UNCHANGED <<autoVars, paneVars>>

\* run_global_command (lib.rs:2371-2383): the UI starts a broadcast ...
RunGlobalCommand(pane_ids) ==
    /\ bcast.pc = "idle"
    /\ bcast' = BcastStart("ui", pane_ids)
    /\ UNCHANGED <<autoVars, paneVars>>

\* ... and receives its results.
RunGlobalCommandReturn ==
    /\ bcast.pc = "done"
    /\ bcast.caller = "ui"
    /\ bcast' = BcastIdle
    /\ UNCHANGED <<autoVars, paneVars>>

\* ------------------------------------------------------------------------
\* Automation worker task (lib.rs:1877-1924) with process_external_command
\* (lib.rs:1783-1875) and dispatch_frontend_automation (lib.rs:1656-1704).
\* ------------------------------------------------------------------------

\* A plausible slip: an exit path forgets to remove the awaiter.
pending_remove_skipped(pending, job_id) ==
    pending

\* pending.remove(&job_id) on the pending_frontend map (lib.rs:1673, 1688, 2411).
pending_remove(pending, job_id) ==
    pending \ {job_id}

NoOutcome ==
    [pending |-> TRUE]

Ok(value) ==
    [ok |-> TRUE, value |-> value]

Err(error) ==
    [ok |-> FALSE, error |-> error]

WorkerIdle ==
    [pc |-> "recv", job |-> NoJob, outcome |-> NoOutcome, ack |-> None]

\* serde_json::json!({ "ok": true })
JsonOkTrue ==
    [ack_result |-> "ok:true"]

TimedOut ==
    [timeout |-> TRUE]

\* A plausible slip: the newest message is taken first.
recv_position_last(q) ==
    Len(q)

\* receiver.recv(): the channel is first-in first-out.
recv_position(q) ==
    1

WithoutIndex(q, k) ==
    SubSeq(q, 1, k - 1) \o SubSeq(q, k + 1, Len(q))

\* lib.rs:1884: receive the next job.
WorkerRecv ==
    /\ worker.pc = "recv"
    /\ receiver_open
    /\ queue # << >>
    /\ worker' = [worker EXCEPT !.pc = "decrement",
                                !.job = queue[recv_position(queue)]]
    /\ queue' = WithoutIndex(queue, recv_position(queue))
    /\ UNCHANGED <<jobs, workspace_registry, queued_jobs, receiver_open,
                   pending_frontend, oneshot, emitted, env_token, report, sync, bindVars, incoming, now,
                   next_uuid, http, sent_log, started_log, paneVars, bcast>>

\* A plausible slip: the counter is not taken down when a job is received,
\* so that it counts the unfinished jobs.
WorkerDecrementSkipped ==
    /\ worker.pc = "decrement"
    /\ worker' = [worker EXCEPT !.pc = "set_running"]
    /\ UNCHANGED <<jobs, workspace_registry, queued_jobs, queue, receiver_open,
                   pending_frontend, oneshot, emitted, env_token, report, sync,
                   bindVars, incoming, now, next_uuid, http, sent_log,
                   started_log, paneVars, bcast>>

\* lib.rs:1885: fetch_sub(1).
WorkerDecrement ==
    /\ worker.pc = "decrement"
    /\ queued_jobs' = queued_jobs - 1
    /\ worker' = [worker EXCEPT !.pc = "set_running"]
    /\ UNCHANGED <<jobs, workspace_registry, queue, receiver_open,
                   pending_frontend, oneshot, emitted, env_token, report, sync, bindVars, incoming, now,
                   next_uuid, http, sent_log, started_log, paneVars, bcast>>

\* lib.rs:1886-1892: update_job_status(.., Running, None, None).
WorkerSetRunning ==
    /\ worker.pc = "set_running"
    /\ jobs' = update_job_status(jobs, worker.job.job_id, "running", None, None, now)
    /\ started_log' = Append(started_log, worker.job.job_id)
    /\ worker' = [worker EXCEPT !.pc = "resolve"]
    /\ UNCHANGED <<workspace_registry, queued_jobs, queue, receiver_open,
                   pending_frontend, oneshot, emitted, env_token, report, sync, bindVars, incoming, now,
                   next_uuid, http, sent_log, paneVars, bcast>>

\* A plausible slip: the job goes on as if the workspace it was submitted
\* for were still open.
WorkerResolveAssumesOpen ==
    /\ worker.pc = "resolve"
    /\ registry_lock_free(sync)
    /\ LET request == worker.job.request
           workspace == IF request.workspace_id \in DOMAIN workspace_registry
                        THEN Some(workspace_registry[request.workspace_id])
                        ELSE Some(Snapshot(request.workspace_id, << >>))
       IN  IF ~IsSome(workspace)
           THEN /\ worker' = [worker EXCEPT
                     !.pc = "finish",
                     !.outcome = Err("not found error: workspace is not open")]
                /\ UNCHANGED bcast
           ELSE IF request.action = "run_command"
           THEN /\ bcast.pc = "idle"
                /\ bcast' = BcastStart("worker", Unwrap(workspace).runtime_pane_ids)
                /\ worker' = [worker EXCEPT !.pc = "broadcast"]
           ELSE /\ worker' = [worker EXCEPT
                     !.pc = IF request.action = "create_panes"
                            THEN "frontend_insert" ELSE "git"]
                /\ UNCHANGED bcast
    /\ UNCHANGED <<jobs, workspace_registry, queued_jobs, queue, receiver_open,
                   pending_frontend, oneshot, emitted, env_token, report, sync, bindVars, incoming, now,
                   next_uuid, http, sent_log, started_log, paneVars>>

\* The workspace_for_automation call every arm of process_external_command
\* starts with; a RunCommand goes straight into run_command_on_panes.
WorkerResolve ==
    /\ worker.pc = "resolve"
    /\ registry_lock_free(sync)
    /\ LET request == worker.job.request
           workspace == workspace_for_automation(workspace_registry,
                                                 request.workspace_id)
       IN  IF ~IsSome(workspace)
           THEN /\ worker' = [worker EXCEPT
                     !.pc = "finish",
                     !.outcome = Err("not found error: workspace is not open")]
                /\ UNCHANGED bcast
           ELSE IF request.action = "run_command"
           THEN /\ bcast.pc = "idle"
                /\ bcast' = BcastStart("worker", Unwrap(workspace).runtime_pane_ids)
                /\ worker' = [worker EXCEPT !.pc = "broadcast"]
           ELSE /\ worker' = [worker EXCEPT
                     !.pc = IF request.action = "create_panes"
                            THEN "frontend_insert" ELSE "git"]
                /\ UNCHANGED bcast
    /\ UNCHANGED <<jobs, workspace_registry, queued_jobs, queue, receiver_open,
                   pending_frontend, oneshot, emitted, env_token, report, sync, bindVars, incoming, now,
                   next_uuid, http, sent_log, started_log, paneVars>>

\* lib.rs:1862-1872: run_command_on_panes returned; its results are the result.
WorkerBroadcastDone ==
    /\ worker.pc = "broadcast"
    /\ bcast.pc = "done"
    /\ bcast.caller = "worker"
    /\ worker' = [worker EXCEPT !.pc = "finish",
                                !.outcome = Ok([pane_results |-> bcast.results])]
    /\ bcast' = BcastIdle
    /\ UNCHANGED <<jobs, workspace_registry, queued_jobs, queue, receiver_open,
                   pending_frontend, oneshot, emitted, env_token, report, sync, bindVars, incoming, now,
                   next_uuid, http, sent_log, started_log, paneVars>>

\* create_worktree / create_branch_for_workspace: the git subprocesses either
\* succeed or fail (lib.rs:1817-1822, 1848-1853, 1706-1781).  A CreateWorktree
\* with open_after_create (default true) goes on to the frontend round-trip.
WorkerGit(git_ok) ==
    /\ worker.pc = "git"
    /\ LET request == worker.job.request
       IN  worker' =
             IF request.action = "create_branch"
             THEN [worker EXCEPT
                     !.pc = "finish",
                     !.outcome = IF Trim(request.branch) = << >>
                                 THEN Err("validation error: branch is required")
                                 ELSE IF git_ok
                                 THEN Ok([branch |-> request.branch])
                                 ELSE Err("git error: git branch command failed")]
             ELSE IF ~git_ok
             THEN [worker EXCEPT
                     !.pc = "finish",
                     !.outcome = Err("git error: git worktree add failed")]
             ELSE IF UnwrapOr(request.open_after_create, TRUE)
             THEN [worker EXCEPT !.pc = "frontend_insert"]
             ELSE [worker EXCEPT
                     !.pc = "finish",
                     !.outcome = Ok([worktree |-> request.branch])]
    /\ UNCHANGED <<jobs, workspace_registry, queued_jobs, queue, receiver_open,
                   pending_frontend, oneshot, emitted, env_token, report, sync, bindVars, incoming, now,
                   next_uuid, http, sent_log, started_log, paneVars, bcast>>

\* lib.rs:1662-1669: create the oneshot channel, insert its sender.
WorkerFrontendInsert ==
    /\ worker.pc = "frontend_insert"
    /\ pending_frontend' = pending_frontend \cup {worker.job.job_id}
    /\ oneshot' = [k \in DOMAIN oneshot \cup {worker.job.job_id} |->
                     IF k = worker.job.job_id THEN None ELSE oneshot[k]]
    /\ worker' = [worker EXCEPT !.pc = "frontend_emit"]
    /\ UNCHANGED <<jobs, workspace_registry, queued_jobs, queue, receiver_open,
                   emitted, env_token, report, sync, bindVars, incoming, now, next_uuid, http, sent_log,
                   started_log, paneVars, bcast>>

\* lib.rs:1671: app_handle.emit("automation:request", request).
WorkerFrontendEmit(emit_ok) ==
    /\ worker.pc = "frontend_emit"
    /\ IF emit_ok
       THEN /\ emitted' = emitted \cup
                   {[job_id |-> worker.job.job_id,
                     action |-> IF worker.job.request.action = "create_panes"
                                THEN "create_panes" ELSE "import_worktree"]}
            /\ worker' = [worker EXCEPT !.pc = "frontend_await"]
       ELSE /\ worker' = [worker EXCEPT !.pc = "frontend_emit_failed"]
            /\ UNCHANGED emitted
    /\ UNCHANGED <<jobs, workspace_registry, queued_jobs, queue, receiver_open,
                   pending_frontend, oneshot, env_token, report, sync, bindVars, incoming, now,
                   next_uuid, http, sent_log, started_log, paneVars, bcast>>

\* lib.rs:1672-1677: emit failed; remove the awaiter and return the error
\* (the receiver is dropped with the call's frame).
WorkerFrontendEmitFailed ==
    /\ worker.pc = "frontend_emit_failed"
    /\ pending_frontend' = pending_remove(pending_frontend, worker.job.job_id)
    /\ oneshot' = [k \in DOMAIN oneshot \ {worker.job.job_id} |-> oneshot[k]]
    /\ worker' = [worker EXCEPT
            !.pc = "finish",
            !.outcome = Err("system error: failed to emit automation request")]
    /\ UNCHANGED <<jobs, workspace_registry, queued_jobs, queue, receiver_open,
                   emitted, env_token, report, sync, bindVars, incoming, now, next_uuid, http, sent_log,
                   started_log, paneVars, bcast>>

\* A plausible slip: the receiver is awaited without a timeout.
WorkerFrontendAwaitNoTimeout ==
    /\ worker.pc = "frontend_await"
    /\ IsSome(oneshot[worker.job.job_id])
    /\ worker' = [worker EXCEPT
            !.pc = "frontend_cleanup",
            !.ack = oneshot[worker.job.job_id]]
    /\ oneshot' = [k \in DOMAIN oneshot \ {worker.job.job_id} |-> oneshot[k]]
    /\ UNCHANGED <<jobs, workspace_registry, queued_jobs, queue, receiver_open,
                   pending_frontend, emitted, env_token, report, sync, bindVars, incoming, now,
                   next_uuid, http, sent_log, started_log, paneVars, bcast>>

\* lib.rs:1680-1681: the timeout future resolves.  It polls the receiver
\* first, so a delivered acknowledgement wins over an elapsed timer; with no
\* value in the slot the 20 s timer may elapse.  Either way the receiver is
\* dropped.
WorkerFrontendAwait ==
    /\ worker.pc = "frontend_await"
    /\ worker' = [worker EXCEPT
            !.pc = "frontend_cleanup",
            !.ack = IF IsSome(oneshot[worker.job.job_id])
                    THEN oneshot[worker.job.job_id]
                    ELSE Some(TimedOut)]
    /\ oneshot' = [k \in DOMAIN oneshot \ {worker.job.job_id} |-> oneshot[k]]
    /\ UNCHANGED <<jobs, workspace_registry, queued_jobs, queue, receiver_open,
                   pending_frontend, emitted, env_token, report, sync, bindVars, incoming, now,
                   next_uuid, http, sent_log, started_log, paneVars, bcast>>

\* lib.rs:1680-1681, the poll of the timeout future on the worker's thread:
\* the receiver is polled first and yields the acknowledgement if one was
\* sent; otherwise the elapsed timer yields the timeout.  The future, and the
\* receiver in it, is still alive when the poll returns.
WorkerFrontendPoll ==
    /\ worker.pc = "frontend_await"
    /\ worker' = [worker EXCEPT
            !.pc = "frontend_drop",
            !.ack = IF IsSome(oneshot[worker.job.job_id])
                    THEN oneshot[worker.job.job_id]
                    ELSE Some(TimedOut)]
    /\ UNCHANGED <<jobs, workspace_registry, queued_jobs, queue, receiver_open,
                   pending_frontend, oneshot, emitted, env_token, report, sync,
                   bindVars, incoming, now, next_uuid, http, sent_log,
                   started_log, paneVars, bcast>>

\* lib.rs:1681: the timeout future is dropped at the end of the statement and
\* the receiver with it; a value sent since the poll is dropped unread.
\* accepted is history: the acknowledgement a successful send put in the
\* channel, whether the poll took it or the drop discarded it.
WorkerFrontendDropReceiver ==
    /\ worker.pc = "frontend_drop"
    /\ worker' = [accepted |-> oneshot[worker.job.job_id]]
                     @@ [worker EXCEPT !.pc = "frontend_cleanup"]
    /\ oneshot' = [k \in DOMAIN oneshot \ {worker.job.job_id} |-> oneshot[k]]
    /\ UNCHANGED <<jobs, workspace_registry, queued_jobs, queue, receiver_open,
                   pending_frontend, emitted, env_token, report, sync, bindVars,
                   incoming, now, next_uuid, http, sent_log, started_log,
                   paneVars, bcast>>

\* A plausible slip: an elapsed timeout is taken for an acknowledgement.
frontend_outcome_timeout_ok(request, ack) ==
    IF ack = TimedOut
    THEN Ok(JsonOkTrue)
    ELSE IF ~ack.ok
    THEN Err(UnwrapOr(ack.error, "frontend automation failed"))
    ELSE IF request.action = "create_panes"
    THEN Ok(UnwrapOr(ack.result, JsonOkTrue))
    ELSE Ok([worktree |-> request.branch])

\* A plausible slip: the acknowledgement's payload is dropped.
frontend_outcome_drops_payload(request, ack) ==
    IF ack = TimedOut
    THEN Err("system error: frontend automation request timed out")
    ELSE IF ~ack.ok
    THEN Err("frontend automation failed")
    ELSE IF request.action = "create_panes"
    THEN Ok(JsonOkTrue)
    ELSE Ok([worktree |-> request.branch])

\* A plausible slip: the outcome of the ImportWorktree round-trip is thrown
\* away (let _ = ... without the question mark).
frontend_outcome_import_ignored(request, ack) ==
    IF request.action = "create_panes"
    THEN IF ack = TimedOut
         THEN Err("system error: frontend automation request timed out")
         ELSE IF ~ack.ok
         THEN Err(UnwrapOr(ack.error, "frontend automation failed"))
         ELSE Ok(UnwrapOr(ack.result, JsonOkTrue))
    ELSE Ok([worktree |-> request.branch])

\* lib.rs:1691-1703 and the callers' use of the value (lib.rs:1797-1838).
frontend_outcome(request, ack) ==
    IF ack = TimedOut
    THEN Err("system error: frontend automation request timed out")
    ELSE IF ~ack.ok
    THEN Err(UnwrapOr(ack.error, "frontend automation failed"))
    ELSE IF request.action = "create_panes"
    THEN Ok(UnwrapOr(ack.result, JsonOkTrue))
    ELSE Ok([worktree |-> request.branch])

\* lib.rs:1683-1703: remove the awaiter, then turn the outcome into the result.
WorkerFrontendCleanup ==
    /\ worker.pc = "frontend_cleanup"
    /\ pending_frontend' = pending_remove(pending_frontend, worker.job.job_id)
    /\ worker' = [worker EXCEPT
            !.pc = "finish",
            !.ack = None,
            !.outcome = frontend_outcome(worker.job.request, Unwrap(worker.ack))]
    /\ UNCHANGED <<jobs, workspace_registry, queued_jobs, queue, receiver_open,
                   oneshot, emitted, env_token, report, sync, bindVars, incoming, now, next_uuid, http,
                   sent_log, started_log, paneVars, bcast>>

\* A plausible slip: an error outcome is dropped without the Failed update.
WorkerFinishDropsError ==
    /\ worker.pc = "finish"
    /\ jobs' = IF worker.outcome.ok
               THEN update_job_status(jobs, worker.job.job_id, "succeeded",
                                      Some(worker.outcome.value), None, now)
               ELSE jobs
    /\ worker' = [worker EXCEPT !.pc = "prune"]
    /\ UNCHANGED <<workspace_registry, queued_jobs, queue, receiver_open,
                   pending_frontend, oneshot, emitted, env_token, report, sync,
                   bindVars, incoming, now, next_uuid, http, sent_log,
                   started_log, paneVars, bcast>>

\* lib.rs:1902-1921 with the write-locked part of update_job_status.
WorkerFinish ==
    /\ worker.pc = "finish"
    /\ jobs' = IF worker.outcome.ok
               THEN update_job_status(jobs, worker.job.job_id, "succeeded",
                                      Some(worker.outcome.value), None, now)
               ELSE update_job_status(jobs, worker.job.job_id, "failed",
                                      None, Some(worker.outcome.error), now)
    /\ worker' = [worker EXCEPT !.pc = "prune"]
    /\ UNCHANGED <<workspace_registry, queued_jobs, queue, receiver_open,
                   pending_frontend, oneshot, emitted, env_token, report, sync, bindVars, incoming, now,
                   next_uuid, http, sent_log, started_log, paneVars, bcast>>

\* lib.rs:1319-1324: prune_completed_jobs after a terminal update, under a
\* write lock of its own; then the loop returns to receiver.recv().
WorkerPrune ==
    /\ worker.pc = "prune"
    /\ \E S \in prune_removals(jobs, AUTOMATION_COMPLETED_JOB_RETENTION_MAX) :
           jobs' = RemoveJobs(jobs, S)
    /\ worker' = WorkerIdle
    /\ UNCHANGED <<workspace_registry, queued_jobs, queue, receiver_open,
                   pending_frontend, oneshot, emitted, env_token, report, sync, bindVars, incoming, now,
                   next_uuid, http, sent_log, started_log, paneVars, bcast>>

\* The async runtime shuts down: the worker task is dropped at an await point
\* and with it the channel's receiver and a oneshot receiver it holds.
RuntimeShutdown ==
    /\ receiver_open
    /\ worker.pc \in {"recv", "frontend_await"}
    /\ receiver_open' = FALSE
    /\ oneshot' = [k \in DOMAIN oneshot \ {worker.job.job_id} |-> oneshot[k]]
    /\ worker' = [worker EXCEPT !.pc = "dropped"]
    /\ UNCHANGED <<jobs, workspace_registry, queued_jobs, queue,
                   pending_frontend, emitted, env_token, report, sync, bindVars, incoming, now,
                   next_uuid, http, sent_log, started_log, paneVars, bcast>>

\* ------------------------------------------------------------------------
\* UI commands on the automation state, and the clock.
\* ------------------------------------------------------------------------

FrontendAutomationAck(job_id, ok, result, error) ==
    [job_id |-> job_id, ok |-> ok, result |-> result, error |-> error]

\* A plausible slip: a report for an unknown job is accepted silently.
automation_report_accepts_unknown(pending, channels, ack) ==
    IF ack.job_id \in pending /\ ack.job_id \notin DOMAIN channels
    THEN "send_failed"
    ELSE "ok"

\* What automation_report returns (lib.rs:2411-2426): NotFound without a
\* pending sender, a System error when the receiver of the channel is gone.
automation_report_result(pending, channels, ack) ==
    IF ack.job_id \notin pending THEN "not_found"
    ELSE IF ack.job_id \in DOMAIN channels THEN "ok"
    ELSE "send_failed"

\* automation_report (lib.rs:2402-2427), atomic under the pending lock: take
\* the sender out of the map and send the acknowledgement through it.
AutomationReport(ack) ==
    /\ report' = automation_report_result(pending_frontend, oneshot, ack)
    /\ IF ack.job_id \in pending_frontend
       THEN /\ pending_frontend' = pending_remove(pending_frontend, ack.job_id)
            /\ oneshot' = IF ack.job_id \in DOMAIN oneshot
                          THEN [oneshot EXCEPT ![ack.job_id] = Some(ack)]
                          ELSE oneshot
       ELSE UNCHANGED <<pending_frontend, oneshot>>
    /\ UNCHANGED <<jobs, workspace_registry, queued_jobs, queue, receiver_open,
                   emitted, env_token, sync, bindVars, incoming, now, next_uuid,
                   http, worker, sent_log, started_log, paneVars, bcast>>

\* sync_automation_workspaces (lib.rs:2385-2400) as one step: the write lock
\* is held from before the clear until after the last insert.
SyncAutomationWorkspaces(workspaces) ==
    /\ registry_lock_free(sync)
    /\ workspace_registry' = InsertAll(EmptyMap, workspaces)
    /\ UNCHANGED <<jobs, queued_jobs, queue, receiver_open, pending_frontend,
                   oneshot, emitted, env_token, report, sync, bindVars, incoming,
                   now, next_uuid, http, worker, sent_log, started_log,
                   paneVars, bcast>>

\* sync_automation_workspaces statement by statement.  lib.rs:2390-2394:
\* workspace_registry.write() returns the guard.
SyncWriteLock(workspaces) ==
    /\ registry_lock_free(sync)
    /\ sync' = [pc |-> "clear", old |-> workspace_registry,
                workspaces |-> workspaces, rest |-> workspaces]
    /\ UNCHANGED <<jobs, workspace_registry, queued_jobs, queue, receiver_open,
                   pending_frontend, oneshot, emitted, env_token, report,
                   bindVars, incoming, now, next_uuid, http, worker, sent_log,
                   started_log, paneVars, bcast>>

\* lib.rs:2395: registry.clear().
SyncClear ==
    /\ sync.pc = "clear"
    /\ workspace_registry' = EmptyMap
    /\ sync' = [sync EXCEPT !.pc = "insert"]
    /\ UNCHANGED <<jobs, queued_jobs, queue, receiver_open, pending_frontend,
                   oneshot, emitted, env_token, report, bindVars, incoming, now,
                   next_uuid, http, worker, sent_log, started_log, paneVars,
                   bcast>>

\* lib.rs:2396-2398: one turn of the for_each, inserting the next snapshot.
SyncInsert ==
    /\ sync.pc = "insert"
    /\ sync.rest # << >>
    /\ workspace_registry' = InsertAll(workspace_registry, <<Head(sync.rest)>>)
    /\ sync' = [sync EXCEPT !.rest = Tail(@)]
    /\ UNCHANGED <<jobs, queued_jobs, queue, receiver_open, pending_frontend,
                   oneshot, emitted, env_token, report, bindVars, incoming, now,
                   next_uuid, http, worker, sent_log, started_log, paneVars,
                   bcast>>

\* lib.rs:2399-2400: the guard is dropped as the command returns Ok(()).
SyncReturn ==
    /\ sync.pc = "insert"
    /\ sync.rest = << >>
    /\ sync' = SyncIdle
    /\ UNCHANGED <<jobs, workspace_registry, queued_jobs, queue, receiver_open,
                   pending_frontend, oneshot, emitted, env_token, report,
                   bindVars, incoming, now, next_uuid, http, worker, sent_log,
                   started_log, paneVars, bcast>>

\* now_millis() advances.
Tick ==
    /\ now < MaxClock
    /\ now' = now + 1
    /\ UNCHANGED <<jobs, workspace_registry, queued_jobs, queue, receiver_open,
                   pending_frontend, oneshot, emitted, env_token, report, sync, bindVars, incoming,
                   next_uuid, http, worker, sent_log, started_log, paneVars,
                   bcast>>

\* ------------------------------------------------------------------------
\* Binding the automation listener: configured_automation_bind,
\* bind_automation_listener and the start of the server thread
\* (lib.rs:970-1074, 1341-1355).  Strings are sequences of characters.
\* ------------------------------------------------------------------------

\* AUTOMATION_DEFAULT_HOST (lib.rs:26)
AUTOMATION_DEFAULT_HOST ==
    <<"1", "2", "7", ".", "0", ".", "0", ".", "1">>

\* AUTOMATION_DEFAULT_PORT (lib.rs:27)
AUTOMATION_DEFAULT_PORT ==
    47631

\* AUTOMATION_FALLBACK_PORT_END (lib.rs:28)
AUTOMATION_FALLBACK_PORT_END ==
    47641

Localhost ==
    <<"l", "o", "c", "a", "l", "h", "o", "s", "t">>

DecimalDigits ==
    <<"0", "1", "2", "3", "4", "5", "6", "7", "8", "9">>

IsDigit(c) ==
    \E d \in 1..10 : DecimalDigits[d] = c

DigitValue(c) ==
    (CHOOSE d \in 1..10 : DecimalDigits[d] = c) - 1

RECURSIVE DecimalValue(_)
DecimalValue(digits) ==
    IF digits = << >> THEN 0
    ELSE DecimalValue(SubSeq(digits, 1, Len(digits) - 1)) * 10
         + DigitValue(digits[Len(digits)])

\* str::parse::<u16>(): an optional '+', then one or more decimal digits
\* whose value fits 16 bits; None for the Err case.
parse_u16(s) ==
    LET digits == IF s # << >> /\ s[1] = "+" THEN Tail(s) ELSE s
    IN  IF digits = << >> \/ \E i \in 1..Len(digits) : ~IsDigit(digits[i])
        THEN None
        ELSE IF DecimalValue(digits) > 65535 THEN None
        ELSE Some(DecimalValue(digits))

\* The position str::rsplit_once splits at: the last occurrence, 0 for none.
LastIndexOf(s, c) ==
    IF \E i \in 1..Len(s) : s[i] = c
    THEN CHOOSE i \in 1..Len(s) :
            s[i] = c /\ \A k \in (i + 1)..Len(s) : s[k] # c
    ELSE 0

Bind(host, port) ==
    [host |-> host, port |-> port]

\* A plausible slip: the host is not checked against the loopback names.
parse_accepts_any_host(value) ==
    LET v == Trim(value)
        k == LastIndexOf(v, ":")
        host == SubSeq(v, 1, k - 1)
        port == parse_u16(SubSeq(v, k + 1, Len(v)))
    IN  IF v = << >> THEN Err("bind value is empty")
        ELSE IF k = 0 THEN Err("expected host:port")
        ELSE IF host = << >> THEN Err("bind host is empty")
        ELSE IF ~IsSome(port) THEN Err("bind port must be a valid u16")
        ELSE IF Unwrap(port) = 0 THEN Err("bind port must be greater than 0")
        ELSE Ok(Bind(host, Unwrap(port)))

\* parse_automation_bind (lib.rs:974-1000)
parse_automation_bind(value) ==
    LET v == Trim(value)
        k == LastIndexOf(v, ":")
        host == SubSeq(v, 1, k - 1)
        port == parse_u16(SubSeq(v, k + 1, Len(v)))
    IN  IF v = << >> THEN Err("bind value is empty")
        ELSE IF k = 0 THEN Err("expected host:port")
        ELSE IF host = << >> THEN Err("bind host is empty")
        ELSE IF host # AUTOMATION_DEFAULT_HOST /\ host # Localhost
        THEN Err("bind host must be localhost-only")
        ELSE IF ~IsSome(port) THEN Err("bind port must be a valid u16")
        ELSE IF Unwrap(port) = 0 THEN Err("bind port must be greater than 0")
        ELSE Ok(Bind(host, Unwrap(port)))

\* configured_automation_bind (lib.rs:1002-1022): the trimmed, non-empty value
\* of the variable when it parses, the default bind otherwise.
configured_automation_bind(env_value) ==
    LET configured == IF IsSome(env_value) /\ Trim(Unwrap(env_value)) # << >>
                      THEN Some(Trim(Unwrap(env_value)))
                      ELSE None
        default == Bind(AUTOMATION_DEFAULT_HOST, AUTOMATION_DEFAULT_PORT)
    IN  IF ~IsSome(configured) THEN default
        ELSE IF parse_automation_bind(Unwrap(configured)).ok
        THEN parse_automation_bind(Unwrap(configured)).value
        ELSE default

RECURSIVE PortRange(_, _)
PortRange(first, last) ==
    IF first > last THEN << >>
    ELSE <<first>> \o PortRange(first + 1, last)

\* A plausible slip: the candidates are listed from the end of the range.
candidates_descending(host, preferred_port) ==
    LET ports == SelectSeq(PortRange(AUTOMATION_DEFAULT_PORT,
                                     AUTOMATION_FALLBACK_PORT_END),
                           LAMBDA port : port # preferred_port)
    IN  [i \in 1..Len(ports) |-> Bind(host, ports[Len(ports) + 1 - i])]

\* A plausible slip: the preferred port is not filtered out.
candidates_keep_preferred(host, preferred_port) ==
    [i \in 1..Len(PortRange(AUTOMATION_DEFAULT_PORT, AUTOMATION_FALLBACK_PORT_END)) |->
        Bind(host, PortRange(AUTOMATION_DEFAULT_PORT, AUTOMATION_FALLBACK_PORT_END)[i])]

\* fallback_automation_bind_candidates (lib.rs:1024-1029)
fallback_automation_bind_candidates(host, preferred_port) ==
    LET ports == SelectSeq(PortRange(AUTOMATION_DEFAULT_PORT,
                                     AUTOMATION_FALLBACK_PORT_END),
                           LAMBDA port : port # preferred_port)
    IN  [i \in 1..Len(ports) |-> Bind(host, ports[i])]

\* TcpListener::bind on a port (lib.rs:1036, 1050): Ok, an AddrInUse error,
\* or, when the system refuses for another reason, an error of another kind.
bind_result(port, in_use, io_error) ==
    IF io_error THEN "other"
    ELSE IF port \in in_use THEN "in_use"
    ELSE "ok"

\* The server thread before configured_automation_bind.
ListenerStart ==
    [pc |-> "start", host |-> << >>, preferred |-> 0, candidates |-> << >>,
     selected |-> None, used_fallback |-> FALSE, failure |-> "none"]

\* The server thread in its accept loop on `bind`.
Listening(preferred, bind, used_fallback) ==
    [pc |-> "listening", host |-> preferred.host, preferred |-> preferred.port,
     candidates |-> << >>, selected |-> Some(bind),
     used_fallback |-> used_fallback, failure |-> "none"]

\* lib.rs:1343-1344: read the configuration.
ListenerConfigure ==
    /\ listener.pc = "start"
    /\ LET bind == configured_automation_bind(bind_env)
       IN  listener' = [listener EXCEPT !.pc = "bind_preferred",
                                        !.host = bind.host,
                                        !.preferred = bind.port]
    /\ UNCHANGED <<jobs, workspace_registry, queued_jobs, queue, receiver_open,
                   pending_frontend, oneshot, emitted, env_token, report, sync,
                   bind_env, occupied, incoming, now, next_uuid, http,
                   worker, sent_log, started_log, paneVars, bcast>>

\* lib.rs:1035-1046: bind the preferred address; on AddrInUse build the
\* candidate list for the scan; another error ends the thread.
ListenerBindPreferred(io_error) ==
    /\ listener.pc = "bind_preferred"
    /\ LET preferred == Bind(listener.host, listener.preferred)
           result == bind_result(listener.preferred, occupied, io_error)
       IN  listener' =
             IF result = "ok" THEN Listening(preferred, preferred, FALSE)
             ELSE IF result = "in_use"
             THEN [listener EXCEPT
                     !.pc = "scan",
                     !.candidates = fallback_automation_bind_candidates(
                                        listener.host, listener.preferred)]
             ELSE [listener EXCEPT !.pc = "failed", !.failure = "bind_error"]
    /\ UNCHANGED <<jobs, workspace_registry, queued_jobs, queue, receiver_open,
                   pending_frontend, oneshot, emitted, env_token, report, sync,
                   bind_env, occupied, incoming, now, next_uuid, http,
                   worker, sent_log, started_log, paneVars, bcast>>

\* lib.rs:1048-1062: one turn of the scan over the candidates.
ListenerBindCandidate(io_error) ==
    /\ listener.pc = "scan"
    /\ listener.candidates # << >>
    /\ LET candidate == Head(listener.candidates)
           result == bind_result(candidate.port, occupied, io_error)
       IN  listener' =
             IF result = "ok"
             THEN Listening(Bind(listener.host, listener.preferred),
                            candidate, TRUE)
             ELSE IF result = "in_use"
             THEN [listener EXCEPT !.candidates = Tail(@)]
             ELSE [listener EXCEPT !.pc = "failed", !.candidates = << >>,
                                    !.failure = "bind_error"]
    /\ UNCHANGED <<jobs, workspace_registry, queued_jobs, queue, receiver_open,
                   pending_frontend, oneshot, emitted, env_token, report, sync,
                   bind_env, occupied, incoming, now, next_uuid, http,
                   worker, sent_log, started_log, paneVars, bcast>>

\* lib.rs:1064-1073 and 1347-1350: no candidate was free; the thread returns
\* without a listener.
ListenerScanExhausted ==
    /\ listener.pc = "scan"
    /\ listener.candidates = << >>
    /\ listener' = [listener EXCEPT !.pc = "failed",
                                    !.failure = "no_available_address"]
    /\ UNCHANGED <<jobs, workspace_registry, queued_jobs, queue, receiver_open,
                   pending_frontend, oneshot, emitted, env_token, report, sync,
                   bind_env, occupied, incoming, now, next_uuid, http,
                   worker, sent_log, started_log, paneVars, bcast>>

\* ------------------------------------------------------------------------
\* The automation bridge: specification SpecJobs.
\* ------------------------------------------------------------------------

\* AppState::new() (lib.rs:304-320) and the threads run() starts.
InitAutomation ==
    /\ jobs = EmptyMap
    /\ workspace_registry = EmptyMap
    /\ queued_jobs = 0
    /\ queue = << >>
    /\ receiver_open = TRUE
    /\ pending_frontend = {}
    /\ oneshot = EmptyMap
    /\ emitted = {}
    /\ report = "none"
    /\ sync = SyncIdle
    /\ incoming = << >>
    /\ now = 0
    /\ next_uuid = 1
    /\ http = HttpIdle(0)
    /\ worker = WorkerIdle
    /\ sent_log = << >>
    /\ started_log = << >>

\* The server thread listening on the default bind, no other process on the
\* ports it scans.
InitListening ==
    /\ bind_env = None
    /\ occupied = {}
    /\ listener = Listening(Bind(AUTOMATION_DEFAULT_HOST, AUTOMATION_DEFAULT_PORT),
                            Bind(AUTOMATION_DEFAULT_HOST, AUTOMATION_DEFAULT_PORT),
                            FALSE)

InitPanes ==
    /\ panes = EmptyMap
    /\ readers = EmptyMap
    /\ runtimes = << >>
    /\ tasks = [slot \in 1..MaxTasks |-> TaskIdle]
    /\ suspended_writes = {}
    /\ removed = {}
    /\ bcast = BcastIdle

\* Requests the clients of SpecJobs send: well-formed commands for workspace
\* w1, one that needs git and the UI and one that broadcasts to panes.
JobRequests ==
    {PostCommand(None, CreateWorktree(W1, <<"b">>, None)),
     PostCommand(None, RunCommand(W1, <<"c">>))}

\* The registries the UI syncs in SpecJobs.
JobSyncs ==
    {<< >>, <<Snapshot(W1, <<"p1">>)>>}

\* The acknowledgements the UI reports in SpecJobs.
JobAcks ==
    {FrontendAutomationAck(j, TRUE, Some([ack_result |-> "r"]), None) :
        j \in 1..MaxJobs}
    \cup {FrontendAutomationAck(j, FALSE, None, None) : j \in 1..MaxJobs}

InitJobs ==
    /\ InitAutomation
    /\ InitListening
    /\ InitPanes
    /\ env_token = None

NextJobs ==
    \/ \E request \in JobRequests : HttpAccept(request)
    \/ HttpQueueCheck
    \/ HttpInsertJob
    \/ HttpIncrement
    \/ HttpSend
    \/ HttpRollbackDecrement
    \/ HttpRollbackRemove
    \/ WorkerRecv
    \/ WorkerDecrement
    \/ WorkerSetRunning
    \/ WorkerResolve
    \/ BcastLookup
    \/ WorkerBroadcastDone
    \/ \E git_ok \in BOOLEAN : WorkerGit(git_ok)
    \/ WorkerFrontendInsert
    \/ \E emit_ok \in BOOLEAN : WorkerFrontendEmit(emit_ok)
    \/ WorkerFrontendEmitFailed
    \/ WorkerFrontendAwait
    \/ WorkerFrontendCleanup
    \/ WorkerFinish
    \/ WorkerPrune
    \/ RuntimeShutdown
    \/ \E ack \in JobAcks : AutomationReport(ack)
    \/ \E workspaces \in JobSyncs : SyncAutomationWorkspaces(workspaces)
    \/ Tick

SpecJobs ==
    InitJobs /\ [][NextJobs]_vars

\* ------------------------------------------------------------------------
\* The frontend round-trip: specification SpecFrontend.  The UI has synced
\* workspace w1; clients submit commands that need the UI, and the UI reports
\* acknowledgements.
\* ------------------------------------------------------------------------

FrontendRequests ==
    {PostCommand(None, CreatePanes(W1, 1)),
     PostCommand(None, CreateWorktree(W1, <<"b">>, None))}

\* The AutomationReportRequest values the UI sends: with and without a
\* result, with and without an error.
FrontendAcks ==
    UNION {{FrontendAutomationAck(j, TRUE, Some([ack_result |-> "r"]), None),
            FrontendAutomationAck(j, TRUE, None, None),
            FrontendAutomationAck(j, FALSE, None, Some("e")),
            FrontendAutomationAck(j, FALSE, None, None)} : j \in 1..MaxJobs}

\* InitAutomation after sync_automation_workspaces([w1]).
InitFrontend ==
    /\ jobs = EmptyMap
    /\ workspace_registry = InsertAll(EmptyMap, <<Snapshot(W1, <<"p1">>)>>)
    /\ queued_jobs = 0
    /\ queue = << >>
    /\ receiver_open = TRUE
    /\ pending_frontend = {}
    /\ oneshot = EmptyMap
    /\ emitted = {}
    /\ report = "none"
    /\ sync = SyncIdle
    /\ incoming = << >>
    /\ now = 0
    /\ next_uuid = 1
    /\ http = HttpIdle(0)
    /\ worker = WorkerIdle
    /\ sent_log = << >>
    /\ started_log = << >>
    /\ InitListening
    /\ InitPanes
    /\ env_token = None

NextFrontend ==
    \/ \E request \in FrontendRequests : HttpAccept(request)
    \/ HttpQueueCheck
    \/ HttpInsertJob
    \/ HttpIncrement
    \/ HttpSend
    \/ WorkerRecv
    \/ WorkerDecrement
    \/ WorkerSetRunning
    \/ WorkerResolve
    \/ \E git_ok \in BOOLEAN : WorkerGit(git_ok)
    \/ WorkerFrontendInsert
    \/ \E emit_ok \in BOOLEAN : WorkerFrontendEmit(emit_ok)
    \/ WorkerFrontendEmitFailed
    \/ WorkerFrontendAwait
    \/ WorkerFrontendCleanup
    \/ WorkerFinish
    \/ WorkerPrune
    \/ \E ack \in FrontendAcks : AutomationReport(ack)

SpecFrontend ==
    InitFrontend /\ [][NextFrontend]_vars

\* ------------------------------------------------------------------------
\* The workspace sync against its readers: specification SpecSync.  The UI
\* syncs its workspaces statement by statement while clients list the
\* workspaces and submit commands, and the worker resolves workspaces.
\* ------------------------------------------------------------------------

SyncRequests ==
    {HttpRequest("ok", TRUE, "GET", "/v1/workspaces", None, None, "ok",
                 InvalidBody),
     PostCommand(None, CreateBranch(W1, <<"b">>))}

\* The workspace lists the UI syncs: none, one workspace, two workspaces,
\* and one workspace listed twice.
SyncLists ==
    {<< >>,
     <<Snapshot(W1, <<"p1">>)>>,
     <<Snapshot(W0, << >>), Snapshot(W1, <<"p1">>)>>,
     <<Snapshot(W1, << >>), Snapshot(W1, <<"p1">>)>>}

InitSync ==
    /\ InitAutomation
    /\ InitListening
    /\ InitPanes
    /\ env_token = None

NextSync ==
    \/ \E request \in SyncRequests : HttpAccept(request)
    \/ HttpQueueCheck
    \/ HttpInsertJob
    \/ HttpIncrement
    \/ HttpSend
    \/ WorkerRecv
    \/ WorkerDecrement
    \/ WorkerSetRunning
    \/ WorkerResolve
    \/ \E git_ok \in BOOLEAN : WorkerGit(git_ok)
    \/ WorkerFinish
    \/ WorkerPrune
    \/ \E workspaces \in SyncLists : SyncWriteLock(workspaces)
    \/ SyncClear
    \/ SyncInsert
    \/ SyncReturn

SpecSync ==
    InitSync /\ [][NextSync]_vars

\* ------------------------------------------------------------------------
\* The start of the server thread: specification SpecBind.  The bind
\* variable has any of the values below and other processes hold any set of
\* the scanned ports and of the other ports a value can name.
\* ------------------------------------------------------------------------

Chars47631 ==
    <<"4", "7", "6", "3", "1">>

Chars47635 ==
    <<"4", "7", "6", "3", "5">>

Chars8080 ==
    <<"8", "0", "8", "0">>

\* Values of SUPERVIBING_AUTOMATION_BIND: unset, blank, well-formed loopback
\* binds (padded, with a '+', with the largest port), and malformed ones
\* (another host, no colon, no host, port 0, port 65536, a port that is not
\* a number, no port, an upper-case host, a host with a colon in it).
BindEnvs ==
    {None,
     Some(<< >>),
     Some(<<" ">>),
     Some(AUTOMATION_DEFAULT_HOST \o <<":">> \o Chars47631),
     Some(<<" ">> \o Localhost \o <<":">> \o Chars47635 \o <<" ">>),
     Some(Localhost \o <<":">> \o Chars8080),
     Some(AUTOMATION_DEFAULT_HOST \o <<":", "+">> \o Chars8080),
     Some(AUTOMATION_DEFAULT_HOST \o <<":", "6", "5", "5", "3", "5">>),
     Some(<<"0", ".", "0", ".", "0", ".", "0", ":">> \o Chars47631),
     Some(Chars47631),
     Some(<<":">> \o Chars47631),
     Some(AUTOMATION_DEFAULT_HOST \o <<":", "0">>),
     Some(AUTOMATION_DEFAULT_HOST \o <<":", "6", "5", "5", "3", "6">>),
     Some(AUTOMATION_DEFAULT_HOST \o <<":", "4", "x">>),
     Some(AUTOMATION_DEFAULT_HOST \o <<":">>),
     Some(<<"L", "O", "C", "A", "L", "H", "O", "S", "T", ":">> \o Chars8080),
     Some(<<"e", ":">> \o AUTOMATION_DEFAULT_HOST \o <<":">> \o Chars47631)}

ScanPorts ==
    AUTOMATION_DEFAULT_PORT..AUTOMATION_FALLBACK_PORT_END

\* The ports other processes may hold: the scanned ones and the ports
\* outside the scan that a value of BindEnvs names.
OccupiedSets ==
    SUBSET (ScanPorts \cup {8080, 65535})

InitBind ==
    /\ InitAutomation
    /\ InitPanes
    /\ env_token = None
    /\ bind_env \in BindEnvs
    /\ occupied \in OccupiedSets
    /\ listener = ListenerStart

NextBind ==
    \/ ListenerConfigure
    \/ \E io_error \in BOOLEAN : ListenerBindPreferred(io_error)
    \/ \E io_error \in BOOLEAN : ListenerBindCandidate(io_error)
    \/ ListenerScanExhausted

SpecBind ==
    InitBind /\ [][NextBind]_vars

\* ------------------------------------------------------------------------
\* Retention pruning on its own: specification SpecPrune.  A job store of
\* up to MaxJobs records is pruned once with a limit, as the unit test of
\* prune_completed_jobs_with_limit does with a store built by hand.
\* ------------------------------------------------------------------------

\* The records of job j: a running job, and succeeded and failed jobs either
\* finished at any time of the clock or without finished_at_ms (the case the
\* unwrap_or of the age key provides for) and then created at any time.
PruneRecords(j) ==
    {[NewJobRecord(j, RunCommand(W1, <<"c">>), 0) EXCEPT
          !.status = "running", !.started_at_ms = Some(0)]}
    \cup {[NewJobRecord(j, RunCommand(W1, <<"c">>), 0) EXCEPT
              !.status = status, !.started_at_ms = Some(0),
              !.finished_at_ms = Some(finished)] :
            status \in {"succeeded", "failed"}, finished \in 0..MaxClock}
    \cup {[NewJobRecord(j, RunCommand(W1, <<"c">>), created) EXCEPT
              !.status = status, !.started_at_ms = Some(created)] :
            status \in {"succeeded", "failed"}, created \in 0..MaxClock}

\* The limits of the pruning calls.
PruneLimits ==
    0..2

\* The caller of prune_completed_jobs_with_limit before the call.
PruneCall(limit) ==
    [pc |-> "prune_with_limit", limit |-> limit, before |-> EmptyMap]

InitPrune ==
    /\ \E n \in 0..MaxJobs :
          jobs \in [1..n -> UNION {PruneRecords(j) : j \in 1..n}]
          /\ \A j \in 1..n : jobs[j].job_id = j
    /\ worker \in {PruneCall(limit) : limit \in PruneLimits}
    /\ workspace_registry = EmptyMap
    /\ queued_jobs = 0
    /\ queue = << >>
    /\ receiver_open = TRUE
    /\ pending_frontend = {}
    /\ oneshot = EmptyMap
    /\ emitted = {}
    /\ report = "none"
    /\ sync = SyncIdle
    /\ incoming = << >>
    /\ now = MaxClock
    /\ next_uuid = MaxJobs + 1
    /\ http = HttpIdle(0)
    /\ sent_log = << >>
    /\ started_log = << >>
    /\ InitListening
    /\ InitPanes
    /\ env_token = None

\* One call of prune_completed_jobs_with_limit; `before` keeps the store the
\* call found.
PruneCompletedJobsWithLimit(order) ==
    /\ worker.pc = "prune_with_limit"
    /\ order \in IterationOrders(jobs)
    /\ jobs' = prune_completed_jobs_with_limit(jobs, worker.limit, order)
    /\ worker' = [worker EXCEPT !.pc = "pruned", !.before = jobs]
    /\ UNCHANGED <<workspace_registry, queued_jobs, queue, receiver_open,
                   pending_frontend, oneshot, emitted, env_token, report, sync,
                   bindVars, incoming, now, next_uuid, http, sent_log,
                   started_log, paneVars, bcast>>

NextPrune ==
    \E order \in UNION {[1..n -> 1..n] : n \in 0..MaxJobs} :
        PruneCompletedJobsWithLimit(order)

SpecPrune ==
    InitPrune /\ [][NextPrune]_vars

\* ------------------------------------------------------------------------
\* Worktree paths: next_available_worktree_path (lib.rs:3445-3459) and
\* specification SpecPath.  create_worktree asks for a path for a branch
\* segment and git creates the directory, or fails to; the user removes
\* worktree directories.  A path is the string of its name under
\* worktrees_root.
\* ------------------------------------------------------------------------

\* The end of the range of suffixes, 2..1000 in the source, scaled to 2..5.
WORKTREE_SUFFIX_END ==
    5

\* format!("{n}") of a non-negative integer.
RECURSIVE FormatDecimal(_)
FormatDecimal(n) ==
    IF n < 10 THEN <<DecimalDigits[n + 1]>>
    ELSE FormatDecimal(n \div 10) \o <<DecimalDigits[(n % 10) + 1]>>

\* worktrees_root.join(format!("{branch_segment}-{suffix}"))
Suffixed(branch_segment, suffix) ==
    branch_segment \o <<"-">> \o suffix

\* The n-th value of Uuid::new_v4(): a value not drawn before.
WorktreeUuid(n) ==
    <<"u">> \o FormatDecimal(n)

\* A plausible slip: the suffixes start at 1.
RECURSIVE first_free_from_one(_, _, _)
first_free_from_one(exists, branch_segment, suffix) ==
    LET from == IF suffix = 2 THEN 1 ELSE suffix
        candidate == Suffixed(branch_segment, FormatDecimal(from))
    IN  IF from >= WORKTREE_SUFFIX_END THEN None
        ELSE IF candidate \notin exists THEN Some(candidate)
        ELSE first_free_from_one(exists, branch_segment, from + 1)

\* lib.rs:3451-3456: the loop over the suffixes from `suffix` on; None when
\* it runs to its end.
RECURSIVE first_free_suffix(_, _, _)
first_free_suffix(exists, branch_segment, suffix) ==
    LET candidate == Suffixed(branch_segment, FormatDecimal(suffix))
    IN  IF suffix >= WORKTREE_SUFFIX_END THEN None
        ELSE IF candidate \notin exists THEN Some(candidate)
        ELSE first_free_suffix(exists, branch_segment, suffix + 1)

\* next_available_worktree_path with `exists` the paths for which
\* Path::exists() is true and `uuid` the value Uuid::new_v4() would return.
next_available_worktree_path(exists, branch_segment, uuid) ==
    IF branch_segment \notin exists
    THEN [path |-> branch_segment, fallback |-> FALSE]
    ELSE LET free == first_free_suffix(exists, branch_segment, 2)
         IN  IF IsSome(free)
             THEN [path |-> Unwrap(free), fallback |-> FALSE]
             ELSE [path |-> Suffixed(branch_segment, uuid), fallback |-> TRUE]

\* The branch segments asked for: the second is what the first gets with
\* suffix 2.
BranchSegments ==
    {<<"a">>, <<"a", "-", "2">>}

\* create_worktree between two calls: the paths that exist.
PathIdle(exists) ==
    [pc |-> "path_idle", exists |-> exists]

InitPath ==
    /\ worker = PathIdle({})
    /\ jobs = EmptyMap
    /\ workspace_registry = EmptyMap
    /\ queued_jobs = 0
    /\ queue = << >>
    /\ receiver_open = TRUE
    /\ pending_frontend = {}
    /\ oneshot = EmptyMap
    /\ emitted = {}
    /\ report = "none"
    /\ sync = SyncIdle
    /\ incoming = << >>
    /\ now = 0
    /\ next_uuid = 1
    /\ http = HttpIdle(0)
    /\ sent_log = << >>
    /\ started_log = << >>
    /\ InitListening
    /\ InitPanes
    /\ env_token = None

pathFrame ==
    <<jobs, workspace_registry, queued_jobs, queue, receiver_open,
      pending_frontend, oneshot, emitted, env_token, report, sync, bindVars,
      incoming, now, http, sent_log, started_log, paneVars, bcast>>

\* lib.rs:2511-2512: create_worktree asks for the path of a branch segment.
NextAvailableWorktreePath(branch_segment) ==
    /\ worker.pc = "path_idle"
    /\ LET r == next_available_worktree_path(worker.exists, branch_segment,
                                             WorktreeUuid(next_uuid))
       IN  /\ r.fallback => next_uuid <= MaxJobs
           /\ worker' = [pc |-> "path_returned", exists |-> worker.exists,
                         branch_segment |-> branch_segment, path |-> r.path,
                         fallback |-> r.fallback]
           /\ next_uuid' = IF r.fallback THEN next_uuid + 1 ELSE next_uuid
    /\ UNCHANGED pathFrame

\* lib.rs:2515-2540: git worktree add creates the directory ...
WorktreeAdd ==
    /\ worker.pc = "path_returned"
    /\ worker' = PathIdle(worker.exists \cup {worker.path})
    /\ UNCHANGED <<pathFrame, next_uuid>>

\* ... or fails and leaves none.
WorktreeAddFailed ==
    /\ worker.pc = "path_returned"
    /\ worker' = PathIdle(worker.exists)
    /\ UNCHANGED <<pathFrame, next_uuid>>

\* A worktree directory is removed.
WorktreeRemoved(path) ==
    /\ worker.pc = "path_idle"
    /\ path \in worker.exists
    /\ worker' = PathIdle(worker.exists \ {path})
    /\ UNCHANGED <<pathFrame, next_uuid>>

\* Every path the calls of the model can return.
WorktreePaths ==
    BranchSegments
    \cup {Suffixed(s, FormatDecimal(k)) :
             s \in BranchSegments, k \in 2..(WORKTREE_SUFFIX_END - 1)}
    \cup {Suffixed(s, WorktreeUuid(n)) : s \in BranchSegments, n \in 1..MaxJobs}

NextPath ==
    \/ \E branch_segment \in BranchSegments :
          NextAvailableWorktreePath(branch_segment)
    \/ WorktreeAdd
    \/ WorktreeAddFailed
    \/ \E path \in WorktreePaths : WorktreeRemoved(path)

SpecPath ==
    InitPath /\ [][NextPath]_vars

\* ------------------------------------------------------------------------
\* The Discord presence worker (lib.rs:1957-2034) and specification
\* SpecDiscord.  The UI toggles the presence with
\* set_discord_presence_enabled; the worker thread receives the commands
\* from its channel.  The sender lives in the managed AppState, so the
\* channel is not disconnected while the application runs.
\* ------------------------------------------------------------------------

\* The thread as start_discord_presence_worker starts it, in front of
\* recv_timeout.  channel holds the commands sent and not yet received (the
\* value of SetEnabled), enabled is the local of
\* apply_latest_discord_presence_command, client is whether a
\* DiscordIpcClient is held.  sent is history: every command sent, in order.
DiscordWorker ==
    [pc |-> "recv_timeout", channel |-> << >>, desired_enabled |-> FALSE,
     enabled |-> FALSE, client |-> FALSE, sent |-> << >>]

InitDiscord ==
    /\ worker = DiscordWorker
    /\ jobs = EmptyMap
    /\ workspace_registry = EmptyMap
    /\ queued_jobs = 0
    /\ queue = << >>
    /\ receiver_open = TRUE
    /\ pending_frontend = {}
    /\ oneshot = EmptyMap
    /\ emitted = {}
    /\ report = "none"
    /\ sync = SyncIdle
    /\ incoming = << >>
    /\ now = 0
    /\ next_uuid = 1
    /\ http = HttpIdle(0)
    /\ sent_log = << >>
    /\ started_log = << >>
    /\ InitListening
    /\ InitPanes
    /\ env_token = None

discordFrame ==
    <<jobs, workspace_registry, queued_jobs, queue, receiver_open,
      pending_frontend, oneshot, emitted, env_token, report, sync, bindVars,
      incoming, now, next_uuid, http, sent_log, started_log, paneVars, bcast>>

\* set_discord_presence_enabled, lib.rs:2360-2369: send SetEnabled(enabled).
SetDiscordPresenceEnabled(enabled) ==
    /\ Len(worker.sent) < MaxCommands
    /\ worker' = [worker EXCEPT !.channel = Append(@, enabled),
                                !.sent = Append(@, enabled)]
    /\ UNCHANGED discordFrame

\* lib.rs:1977-1978: recv_timeout returns the first command waiting.
DiscordRecv ==
    /\ worker.pc = "recv_timeout"
    /\ worker.channel # << >>
    /\ worker' = [worker EXCEPT !.pc = "try_recv",
                                !.enabled = Head(worker.channel),
                                !.channel = Tail(@)]
    /\ UNCHANGED discordFrame

\* lib.rs:1988: recv_timeout times out on an empty channel.
DiscordRecvTimeout ==
    /\ worker.pc = "recv_timeout"
    /\ worker.channel = << >>
    /\ worker' = [worker EXCEPT !.pc = "presence"]
    /\ UNCHANGED discordFrame

\* A plausible slip: the first command is applied and the others are left
\* in the channel.
DiscordTryRecvNotDrained ==
    /\ worker.pc = "try_recv"
    /\ worker' = [worker EXCEPT
            !.desired_enabled = worker.enabled,
            !.pc = IF worker.enabled THEN "presence" ELSE "clear"]
    /\ UNCHANGED discordFrame

\* lib.rs:1962-1965 and 1979-1986: one try_recv of the loop of
\* apply_latest_discord_presence_command; on Empty the loop ends, the value
\* is returned and assigned to desired_enabled.
DiscordTryRecv ==
    /\ worker.pc = "try_recv"
    /\ worker' =
         IF worker.channel # << >>
         THEN [worker EXCEPT !.enabled = Head(worker.channel),
                             !.channel = Tail(@)]
         ELSE [worker EXCEPT
                 !.desired_enabled = worker.enabled,
                 !.pc = IF worker.enabled THEN "presence" ELSE "clear"]
    /\ UNCHANGED discordFrame

\* lib.rs:1981-1984: presence was turned off; drop the client and wait again.
DiscordClear ==
    /\ worker.pc = "clear"
    /\ worker' = [worker EXCEPT !.client = FALSE, !.pc = "recv_timeout"]
    /\ UNCHANGED discordFrame

\* lib.rs:1996-2031: the rest of the loop body.  Nothing when presence is
\* not desired; without a client a connection attempt when the retry time
\* has come ("wait" when not); with a client a health check when it is due
\* ("wait" when not), which keeps the client or drops it.
DiscordPresence(outcome) ==
    /\ worker.pc = "presence"
    /\ worker' =
         IF ~worker.desired_enabled \/ outcome = "wait"
         THEN [worker EXCEPT !.pc = "recv_timeout"]
         ELSE [worker EXCEPT !.pc = "recv_timeout",
                             !.client = (outcome = "ok")]
    /\ UNCHANGED discordFrame

NextDiscord ==
    \/ \E enabled \in BOOLEAN : SetDiscordPresenceEnabled(enabled)
    \/ DiscordRecv
    \/ DiscordRecvTimeout
    \/ DiscordTryRecv
    \/ DiscordClear
    \/ \E outcome \in {"wait", "ok", "failed"} : DiscordPresence(outcome)

SpecDiscord ==
    InitDiscord /\ [][NextDiscord]_vars

\* ------------------------------------------------------------------------
\* Reading requests off the wire: specification SpecRead.  The UI has synced
\* workspace w1, the worker is stalled; clients send heads and bodies of
\* every length around the limit, in reads of every size.
\* ------------------------------------------------------------------------

\* Health checks and valid commands, with a head that ends in a blank line or
\* does not, with and without a Content-Length, which may differ from the
\* length of the body sent.
WireRequests ==
    {WireRequest(request, head_bytes, terminated, content_length,
                 IF terminated THEN body_bytes ELSE 0) :
        request \in {HttpRequest("ok", TRUE, "GET", "/v1/health", None, None,
                                 "ok", InvalidBody),
                     PostCommand(None, CreatePanes(W1, 1))},
        head_bytes \in 1..(AUTOMATION_HTTP_MAX_BODY_BYTES + READ_BUFFER_BYTES),
        terminated \in BOOLEAN,
        content_length \in {None} \cup
            {Some(n) : n \in 0..(AUTOMATION_HTTP_MAX_BODY_BYTES + 1)},
        body_bytes \in 0..(AUTOMATION_HTTP_MAX_BODY_BYTES + 1)}

NextRead ==
    \/ \E wire \in WireRequests : HttpConnect(wire)
    \/ \E bytes_read \in ReadResults :
          HttpReadHead(bytes_read)
    \/ HttpParseHead
    \/ \E bytes_read \in ReadResults :
          HttpReadBody(bytes_read)
    \/ HttpRouteRequest
    \/ HttpQueueCheck
    \/ HttpInsertJob
    \/ HttpIncrement
    \/ HttpSend

SpecRead ==
    InitFrontend /\ [][NextRead]_vars

\* ------------------------------------------------------------------------
\* The pane runtime: specification SpecPanes.
\* ------------------------------------------------------------------------

PaneIds ==
    {"p1", "p2"}

\* The pane id lists of run_global_command, repeated ids included.
RECURSIVE PaneIdLists(_)
PaneIdLists(n) ==
    IF n = 0 THEN {<< >>}
    ELSE PaneIdLists(n - 1)
         \cup {Append(l, id) : l \in {m \in PaneIdLists(n - 1) : Len(m) = n - 1},
                               id \in PaneIds}

IoOutcomes ==
    {"ok", "write_failed", "flush_failed"}

Slots ==
    1..MaxTasks

InitPaneRuntime ==
    /\ InitAutomation
    /\ InitListening
    /\ InitPanes
    /\ env_token = None

NextPanes ==
    \/ \E slot \in Slots, pane_id \in PaneIds, setup_ok \in BOOLEAN :
          SpawnPane(slot, pane_id, setup_ok)
    \/ \E slot \in Slots : SpawnInsert(slot)
    \/ \E slot \in Slots : SpawnConflict(slot)
    \/ \E slot \in Slots, thread_ok \in BOOLEAN : SpawnReader(slot, thread_ok)
    \/ \E slot \in Slots : SpawnReaderFailedRemove(slot)
    \/ \E slot \in Slots : SpawnReaderFailedKill(slot)
    \/ \E slot \in Slots, pane_id \in PaneIds : WritePaneInput(slot, pane_id)
    \/ \E slot \in Slots, io \in IoOutcomes : WriteLocked(slot, io)
    \/ \E slot \in Slots, pane_id \in PaneIds : ResizePane(slot, pane_id)
    \/ \E slot \in Slots, resize_ok \in BOOLEAN : ResizeMaster(slot, resize_ok)
    \/ \E slot \in Slots, pane_id \in PaneIds : ClosePane(slot, pane_id)
    \/ \E slot \in Slots, kill_ok \in BOOLEAN : CloseKill(slot, kill_ok)
    \/ \E slot \in Slots, pane_id \in PaneIds : SuspendPane(slot, pane_id)
    \/ \E slot \in Slots, pane_id \in PaneIds : ResumePane(slot, pane_id)
    \/ \E slot \in Slots, outcome \in {"ok", "no_pid", "signal_failed"} :
          SignalChild(slot, outcome)
    \/ \E slot \in Slots : StoreSuspended(slot)
    \/ \E pane \in 1..MaxRuntimes : ReaderEvict(pane)
    \/ \E pane_id \in PaneIds : RunGlobalCommand(<<pane_id>>)
    \/ BcastLookup
    \/ BcastCheckSuspended
    \/ \E io \in IoOutcomes : BcastWrite(io)
    \/ RunGlobalCommandReturn

SpecPanes ==
    InitPaneRuntime /\ [][NextPanes]_vars

\* ------------------------------------------------------------------------
\* Broadcasts over lists of pane ids: specification SpecBroadcast.  The UI
\* spawns, suspends, resumes and closes pane p1 while run_global_command
\* visits lists over p1 and p2; p2 is never spawned.
\* ------------------------------------------------------------------------

NextBroadcast ==
    \/ \E slot \in Slots : SpawnPane(slot, "p1", TRUE)
    \/ \E slot \in Slots : SpawnInsert(slot)
    \/ \E slot \in Slots : SpawnConflict(slot)
    \/ \E slot \in Slots : SpawnReader(slot, TRUE)
    \/ \E slot \in Slots : ClosePane(slot, "p1")
    \/ \E slot \in Slots : CloseKill(slot, TRUE)
    \/ \E slot \in Slots : SuspendPane(slot, "p1")
    \/ \E slot \in Slots : ResumePane(slot, "p1")
    \/ \E slot \in Slots, outcome \in {"ok", "signal_failed"} :
          SignalChild(slot, outcome)
    \/ \E slot \in Slots : StoreSuspended(slot)
    \/ \E pane \in 1..MaxRuntimes : ReaderEvict(pane)
    \/ \E pane_ids \in PaneIdLists(MaxPaneIds) : RunGlobalCommand(pane_ids)
    \/ BcastLookup
    \/ BcastCheckSuspended
    \/ \E io \in IoOutcomes : BcastWrite(io)
    \/ RunGlobalCommandReturn

SpecBroadcast ==
    InitPaneRuntime /\ [][NextBroadcast]_vars

\* ------------------------------------------------------------------------
\* The acknowledgement against the timeout: specification SpecAck.  As
\* SpecFrontend, with the wait of dispatch_frontend_automation in the steps
\* of the worker's thread, automation_report running on the thread of the
\* command in between.
\* ------------------------------------------------------------------------

NextAck ==
    \/ \E request \in FrontendRequests : HttpAccept(request)
    \/ HttpQueueCheck
    \/ HttpInsertJob
    \/ HttpIncrement
    \/ HttpSend
    \/ WorkerRecv
    \/ WorkerDecrement
    \/ WorkerSetRunning
    \/ WorkerResolve
    \/ \E git_ok \in BOOLEAN : WorkerGit(git_ok)
    \/ WorkerFrontendInsert
    \/ \E emit_ok \in BOOLEAN : WorkerFrontendEmit(emit_ok)
    \/ WorkerFrontendEmitFailed
    \/ WorkerFrontendPoll
    \/ WorkerFrontendDropReceiver
    \/ WorkerFrontendCleanup
    \/ WorkerFinish
    \/ WorkerPrune
    \/ \E ack \in FrontendAcks : AutomationReport(ack)

SpecAck ==
    InitFrontend /\ [][NextAck]_vars

\* ------------------------------------------------------------------------
\* CreateWorktree jobs: specification SpecWorktree.  As SpecFrontend, the
\* clients submitting CreateWorktree commands with open_after_create unset,
\* true and false.
\* ------------------------------------------------------------------------

WorktreeRequests ==
    {PostCommand(None, CreateWorktree(W1, <<"b">>, open_after_create)) :
        open_after_create \in {None, Some(TRUE), Some(FALSE)}}

NextWorktree ==
    \/ \E request \in WorktreeRequests : HttpAccept(request)
    \/ HttpQueueCheck
    \/ HttpInsertJob
    \/ HttpIncrement
    \/ HttpSend
    \/ WorkerRecv
    \/ WorkerDecrement
    \/ WorkerSetRunning
    \/ WorkerResolve
    \/ \E git_ok \in BOOLEAN : WorkerGit(git_ok)
    \/ WorkerFrontendInsert
    \/ \E emit_ok \in BOOLEAN : WorkerFrontendEmit(emit_ok)
    \/ WorkerFrontendEmitFailed
    \/ WorkerFrontendAwait
    \/ WorkerFrontendCleanup
    \/ WorkerFinish
    \/ WorkerPrune
    \/ \E ack \in FrontendAcks : AutomationReport(ack)

SpecWorktree ==
    InitFrontend /\ [][NextWorktree]_vars

\* ------------------------------------------------------------------------
\* The worker under fair scheduling: specification SpecLive.  The UI has
\* synced workspace w1 and spawned its pane p1; clients submit commands that
\* need the UI, git or a pane write; the UI may or may not report.
\* ------------------------------------------------------------------------

LiveRequests ==
    {PostCommand(None, CreatePanes(W1, 1)),
     PostCommand(None, CreateBranch(W1, <<"b">>)),
     PostCommand(None, RunCommand(W1, <<"c">>))}

LiveAcks ==
    UNION {{FrontendAutomationAck(j, TRUE, None, None),
            FrontendAutomationAck(j, FALSE, None, None)} : j \in 1..MaxJobs}

\* InitFrontend after spawn_pane(p1) has returned Ok.
InitLive ==
    /\ jobs = EmptyMap
    /\ workspace_registry = InsertAll(EmptyMap, <<Snapshot(W1, <<"p1">>)>>)
    /\ queued_jobs = 0
    /\ queue = << >>
    /\ receiver_open = TRUE
    /\ pending_frontend = {}
    /\ oneshot = EmptyMap
    /\ emitted = {}
    /\ report = "none"
    /\ sync = SyncIdle
    /\ incoming = << >>
    /\ now = 0
    /\ next_uuid = 1
    /\ http = HttpIdle(0)
    /\ worker = WorkerIdle
    /\ sent_log = << >>
    /\ started_log = << >>
    /\ InitListening
    /\ env_token = None
    /\ panes = insert_pane(EmptyMap, "p1", 1).registry
    /\ readers = [r \in {1} |-> "running"]
    /\ runtimes = <<[PaneRuntime("p1") EXCEPT !.entry = "inserted"]>>
    /\ tasks = [slot \in 1..MaxTasks |-> TaskIdle]
    /\ suspended_writes = {}
    /\ removed = {}
    /\ bcast = BcastIdle

\* The steps of the task start_automation_worker spawns (lib.rs:1883-1923),
\* with those of the run_command_on_panes call it awaits.
WorkerTask ==
    \/ WorkerRecv
    \/ WorkerDecrement
    \/ WorkerSetRunning
    \/ WorkerResolve
    \/ BcastLookup
    \/ BcastCheckSuspended
    \/ \E io \in IoOutcomes : BcastWrite(io)
    \/ WorkerBroadcastDone
    \/ \E git_ok \in BOOLEAN : WorkerGit(git_ok)
    \/ WorkerFrontendInsert
    \/ \E emit_ok \in BOOLEAN : WorkerFrontendEmit(emit_ok)
    \/ WorkerFrontendEmitFailed
    \/ WorkerFrontendAwait
    \/ WorkerFrontendCleanup
    \/ WorkerFinish
    \/ WorkerPrune

NextLive ==
    \/ \E request \in LiveRequests : HttpAccept(request)
    \/ HttpQueueCheck
    \/ HttpInsertJob
    \/ HttpIncrement
    \/ HttpSend
    \/ WorkerTask
    \/ \E ack \in LiveAcks : AutomationReport(ack)

\* The async runtime keeps polling the worker task: a step of it that stays
\* possible is taken.  Its awaits resolve: the channel's recv when a job is
\* queued, the git subprocess and the pane write when they return, the
\* frontend round-trip at the latest when its timer fires.  Nothing is
\* assumed of the clients or of the UI.
FairLive ==
    WF_vars(WorkerTask)

SpecLive ==
    InitLive /\ [][NextLive]_vars /\ FairLive

\* ------------------------------------------------------------------------
\* Reader threads and their cleanup: specification SpecReaders.  The UI
\* spawns and closes pane p1, again and again; children exit; the reader
\* threads terminate and their cleanup tasks run on the async runtime.
\* ------------------------------------------------------------------------

NextReaders ==
    \/ \E slot \in Slots : SpawnPane(slot, "p1", TRUE)
    \/ \E slot \in Slots : SpawnInsert(slot)
    \/ \E slot \in Slots : SpawnConflict(slot)
    \/ \E slot \in Slots, thread_ok \in BOOLEAN : SpawnReader(slot, thread_ok)
    \/ \E slot \in Slots : SpawnReaderFailedRemove(slot)
    \/ \E slot \in Slots : SpawnReaderFailedKill(slot)
    \/ \E slot \in Slots : ClosePane(slot, "p1")
    \/ \E slot \in Slots, kill_ok \in BOOLEAN : CloseKill(slot, kill_ok)
    \/ \E pane \in 1..MaxRuntimes : ChildExits(pane)
    \/ \E pane \in 1..MaxRuntimes, cause \in {"eof", "error", "send_rejected"} :
          ReaderTerminate(pane, cause)
    \/ \E pane \in 1..MaxRuntimes : ReaderCleanup(pane)

\* The async runtime runs every task spawned on it: a cleanup task that was
\* spawned gets the write lock of the registry and runs.  Nothing is assumed
\* of the UI, of the children or of the reader threads.
FairReaders ==
    \A pane \in 1..MaxRuntimes : WF_vars(ReaderCleanup(pane))

SpecReaders ==
    InitPaneRuntime /\ [][NextReaders]_vars /\ FairReaders

\* ------------------------------------------------------------------------
\* Concurrent suspend and resume: specification SpecSignals.  The UI spawns
\* pane p1 and runs suspend_pane and resume_pane on it, two commands at a
\* time.
\* ------------------------------------------------------------------------

SignalSlots ==
    1..(MaxTasks + 1)

InitSignals ==
    /\ InitAutomation
    /\ InitListening
    /\ env_token = None
    /\ panes = EmptyMap
    /\ readers = EmptyMap
    /\ runtimes = << >>
    /\ tasks = [slot \in SignalSlots |-> TaskIdle]
    /\ suspended_writes = {}
    /\ removed = {}
    /\ bcast = BcastIdle

NextSignals ==
    \/ \E slot \in SignalSlots : SpawnPane(slot, "p1", TRUE)
    \/ \E slot \in SignalSlots : SpawnInsert(slot)
    \/ \E slot \in SignalSlots : SpawnConflict(slot)
    \/ \E slot \in SignalSlots : SpawnReader(slot, TRUE)
    \/ \E slot \in SignalSlots : SuspendPane(slot, "p1")
    \/ \E slot \in SignalSlots : ResumePane(slot, "p1")
    \/ \E slot \in SignalSlots, outcome \in {"ok", "no_pid"} :
          SignalChild(slot, outcome)
    \/ \E slot \in SignalSlots : StoreSuspended(slot)

SpecSignals ==
    InitSignals /\ [][NextSignals]_vars

\* ------------------------------------------------------------------------
\* Concurrent writes to one pane: specification SpecWrites.  The UI spawns
\* pane p1 and writes to it with write_pane_input while run_global_command
\* broadcasts to it, once or twice in one list, every write statement a step
\* of its own.
\* ------------------------------------------------------------------------

NextWrites ==
    \/ \E slot \in Slots : SpawnPane(slot, "p1", TRUE)
    \/ \E slot \in Slots : SpawnInsert(slot)
    \/ \E slot \in Slots : SpawnConflict(slot)
    \/ \E slot \in Slots : SpawnReader(slot, TRUE)
    \/ \E slot \in Slots : WritePaneInput(slot, "p1")
    \/ \E slot \in Slots, execute \in BOOLEAN : InputWriterLock(slot, execute)
    \/ \E slot \in Slots, io_ok \in BOOLEAN : InputWriteData(slot, io_ok)
    \/ \E slot \in Slots, io_ok \in BOOLEAN : InputWriteNewline(slot, io_ok)
    \/ \E slot \in Slots, io_ok \in BOOLEAN : InputFlush(slot, io_ok)
    \/ \E pane_ids \in {<<"p1">>, <<"p1", "p1">>}, execute \in BOOLEAN :
          RunGlobalCommandExecute(pane_ids, execute)
    \/ BcastLookup
    \/ BcastCheckSuspended
    \/ BcastWriterLock
    \/ \E io_ok \in BOOLEAN : BcastWriteData(io_ok)
    \/ \E io_ok \in BOOLEAN : BcastWriteNewline(io_ok)
    \/ \E io_ok \in BOOLEAN : BcastFlush(io_ok)
    \/ RunGlobalCommandReturn

SpecWrites ==
    InitPaneRuntime /\ [][NextWrites]_vars

\* ------------------------------------------------------------------------
\* One HTTP request against the automation bridge: specification SpecHttp.
\* The initial states are the states in which a connection arrives: a token
\* setting, a synced registry, k jobs accepted and not yet received by the
\* worker, the runtime alive or shut down, and the request in the backlog.
\* ------------------------------------------------------------------------

TokenEnvs ==
    {None, Some(<<" ">>), Some(<<"s", " ">>)}

\* Raw values of the Authorization header: absent, the token, another token,
\* the token with spaces around it, a lower-case scheme, no token, no scheme.
AuthorizationHeaders ==
    {None,
     Some(BearerPrefix \o <<"s">>),
     Some(BearerPrefix \o <<"t">>),
     Some(<<" ">> \o BearerPrefix \o <<" ", "s", " ">>),
     Some(<<"b", "e", "a", "r", "e", "r", " ", "s">>),
     Some(BearerPrefix),
     Some(<<"s">>)}

HttpRegistries ==
    {InsertAll(EmptyMap, workspaces) :
        workspaces \in {<< >>, <<Snapshot(W1, <<"p1">>)>>,
                        <<Snapshot(W1, << >>)>>,
                        <<Snapshot(WBlank, <<"p1">>)>>}}

HttpWorkspaceIds ==
    {W1, W0, WBlank}

HttpCommands ==
    {CreatePanes(ws, n) : ws \in HttpWorkspaceIds, n \in {0, 1, 16, 17}}
    \cup {CreateWorktree(ws, branch, None) :
            ws \in HttpWorkspaceIds, branch \in {<< >>, <<" ">>, <<"b">>}}
    \cup {CreateBranch(ws, branch) :
            ws \in HttpWorkspaceIds, branch \in {<< >>, <<" ">>, <<"b">>}}
    \cup {RunCommand(ws, command) :
            ws \in HttpWorkspaceIds,
            command \in {<< >>, <<" ">>, <<"c">>, <<"c", "c">>,
                         <<"c", "c", "c">>, <<"c", "c", " ">>}}

HttpRoutes ==
    {<<"GET", "/v1/health", None>>, <<"GET", "/v1/workspaces", None>>,
     <<"POST", "/v1/commands", None>>, <<"GET", "/v1/jobs/", None>>,
     <<"GET", "/v1/jobs/", Some(1)>>, <<"GET", "/v1/jobs/", Some(9)>>,
     <<"GET", "/other", None>>, <<"POST", "/v1/health", None>>}

\* Requests whose head does not parse, requests to every route with every
\* header and body size, and commands of every shape.
HttpRequests ==
    {HttpRequest(head, line_ok, "POST", "/v1/commands", None, authorization,
                 "ok", CommandBody(CreatePanes(W1, 1))) :
        head \in {"too_large", "empty", "unterminated", "ok"},
        line_ok \in BOOLEAN, authorization \in AuthorizationHeaders}
    \cup {HttpRequest("ok", TRUE, route[1], route[2], route[3], authorization,
                      size, CommandBody(CreatePanes(W1, 1))) :
            route \in HttpRoutes, authorization \in AuthorizationHeaders,
            size \in {"ok", "content_length_too_large", "body_too_large",
                      "read_error"}}
    \cup {HttpRequest("ok", TRUE, "POST", "/v1/commands", None, authorization,
                      "ok", body) :
            authorization \in {None, Some(BearerPrefix \o <<"s">>)},
            body \in {InvalidBody} \cup {CommandBody(c) : c \in HttpCommands}}

\* k jobs accepted and waiting in the channel.
QueuedContext(k) ==
    /\ jobs = [j \in 1..k |-> NewJobRecord(j, RunCommand(W1, <<"c">>), 0)]
    /\ queue = [j \in 1..k |-> [job_id |-> j,
                                request |-> RunCommand(W1, <<"c">>)]]
    /\ sent_log = [j \in 1..k |-> j]
    /\ queued_jobs = k
    /\ next_uuid = k + 1

InitHttp ==
    /\ \E k \in 0..AUTOMATION_QUEUE_MAX : QueuedContext(k)
    /\ workspace_registry \in HttpRegistries
    /\ env_token \in TokenEnvs
    /\ receiver_open \in BOOLEAN
    /\ worker = IF receiver_open THEN WorkerIdle
                ELSE [WorkerIdle EXCEPT !.pc = "dropped"]
    /\ incoming \in {<<request>> : request \in HttpRequests}
    /\ pending_frontend = {}
    /\ oneshot = EmptyMap
    /\ emitted = {}
    /\ report = "none"
    /\ sync = SyncIdle
    /\ now = 0
    /\ http = HttpIdle(0)
    /\ started_log = << >>
    /\ InitListening
    /\ InitPanes

NextHttp ==
    \/ HttpAcceptBacklog
    \/ HttpQueueCheck
    \/ HttpInsertJob
    \/ HttpIncrement
    \/ HttpSend
    \/ HttpRollbackDecrement
    \/ HttpRollbackRemove

SpecHttp ==
    InitHttp /\ [][NextHttp]_vars

\* ------------------------------------------------------------------------
\* Properties of the automation bridge.
\* ------------------------------------------------------------------------

\* C1 (SpecJobs): a job's status changes only queued -> running and
\* running -> succeeded or failed; a job enters the store queued; a succeeded
\* or failed job never changes status again.
C1_StatusTransitions ==
    [][/\ \A j \in DOMAIN jobs' \ DOMAIN jobs : jobs'[j].status = "queued"
       /\ \A j \in DOMAIN jobs \cap DOMAIN jobs' :
            jobs'[j].status # jobs[j].status =>
                <<jobs[j].status, jobs'[j].status>> \in
                    {<<"queued", "running">>, <<"running", "succeeded">>,
                     <<"running", "failed">>}]_vars

\* A failed job next to a running one: the worker has taken a job through
\* both updates and started another.
C1_Witness ==
    \E j, k \in DOMAIN jobs :
        /\ jobs[j].status = "failed"
        /\ IsSome(jobs[j].started_at_ms)
        /\ jobs[k].status = "running"

\* C2 (SpecJobs): every run of prune_completed_jobs leaves at most
\* AUTOMATION_COMPLETED_JOB_RETENTION_MAX succeeded or failed jobs in the
\* store, and every job that was queued or running before it is still there,
\* unchanged.
C2_PruneKeepsActiveJobs ==
    [][worker.pc = "prune" /\ worker'.pc # "prune" =>
         /\ Cardinality(CompletedJobs(jobs'))
                <= AUTOMATION_COMPLETED_JOB_RETENTION_MAX
         /\ \A j \in DOMAIN jobs :
                jobs[j].status \in {"queued", "running"} =>
                    j \in DOMAIN jobs' /\ jobs'[j] = jobs[j]]_vars

\* A started job is gone from the store (pruned: the runtime is alive, so no
\* submission was rolled back) while a queued job and a full quota of
\* completed jobs remain.
C2_Witness ==
    /\ receiver_open
    /\ worker.pc = "recv"
    /\ \E i \in 1..Len(started_log) : started_log[i] \notin DOMAIN jobs
    /\ \E q \in DOMAIN jobs : jobs[q].status = "queued"
    /\ Cardinality(CompletedJobs(jobs)) = AUTOMATION_COMPLETED_JOB_RETENTION_MAX

\* C3 (SpecJobs): the worker sets jobs running in the order they were sent
\* into the channel, and when a job is set running every job started before
\* it has reached succeeded or failed (or has been pruned after that).
C3_StartsInEnqueueOrder ==
    /\ Len(started_log) <= Len(sent_log)
    /\ \A i \in 1..Len(started_log) : started_log[i] = sent_log[i]
    /\ \A i \in 1..(Len(started_log) - 1) :
           started_log[i] \in DOMAIN jobs =>
               IsTerminal(jobs[started_log[i]].status)

\* Three jobs were sent and the second is running.
C3_Witness ==
    /\ Len(sent_log) = 3
    /\ Len(started_log) = 2
    /\ jobs[started_log[2]].status = "running"

\* C4 (SpecJobs): the counter queued_jobs never exceeds AUTOMATION_QUEUE_MAX,
\* and a submission that loads a counter at or above it is answered 429.
C4_QueueDepthBounded ==
    /\ [](queued_jobs <= AUTOMATION_QUEUE_MAX)
    /\ [][http.pc = "queue_check" /\ http' # http
              /\ queued_jobs >= AUTOMATION_QUEUE_MAX =>
            http'.pc = "idle" /\ http'.status = 429 /\ jobs' = jobs]_vars

\* The counter is at the cap and the last submission was answered 429.
C4_Witness ==
    /\ queued_jobs = AUTOMATION_QUEUE_MAX
    /\ http.pc = "idle"
    /\ http.status = 429

C6_ExpectedStatus(request, registry, depth, blank_id_check) ==
    IF request.body.json # "command" THEN 400
    ELSE LET command == request.body.request
         IN  IF blank_id_check /\ Trim(command.workspace_id) = << >> THEN 400
             ELSE IF command.workspace_id \notin DOMAIN registry THEN 404
             ELSE IF command.action = "create_panes"
                       /\ command.pane_count \notin 1..16 THEN 400
             ELSE IF command.action \in {"create_worktree", "create_branch"}
                       /\ Trim(command.branch) = << >> THEN 400
             ELSE IF command.action = "run_command"
                       /\ registry[command.workspace_id].runtime_pane_ids = << >>
                  THEN 409
             ELSE IF command.action = "run_command"
                       /\ Trim(command.command) = << >> THEN 400
             ELSE IF command.action = "run_command"
                       /\ Len(Trim(command.command)) > AUTOMATION_MAX_COMMAND_BYTES
                  THEN 400
             ELSE IF depth >= AUTOMATION_QUEUE_MAX THEN 429
             ELSE 202

\* A step of the HTTP thread on a POST /v1/commands that passed the checks
\* made before routing answers as C6_ExpectedStatus says, or goes on towards
\* the queue when no validation check fails; 202 is answered only when no
\* check fails.
C6_StepAnswers(blank_id_check) ==
    http' # http =>
        LET request == IF http.pc = "idle" THEN Head(incoming) ELSE http.request
            depth == IF IsSome(http.depth) THEN Unwrap(http.depth)
                     ELSE queued_jobs
            expected == C6_ExpectedStatus(request, workspace_registry, depth,
                                          blank_id_check)
        IN  request.method = "POST" /\ request.path = "/v1/commands"
              /\ pre_route_status(request, env_token) = -1 =>
                /\ http'.pc = "idle" /\ expected # 202 => http'.status = expected
                /\ http'.pc = "idle" /\ http'.status = 202 => expected = 202
                /\ http'.pc # "idle" => expected \in {202, 429}
                /\ http'.pc \notin {"idle", "queue_check"} => expected = 202

\* C6 as stated (SpecHttp): the status of POST /v1/commands is that of the
\* first failing check in the order: body does not parse (400), workspace id
\* not in the registry (404), the variant's checks (400, 409), queue depth at
\* the cap (429); 202 only when every check passes.
C6_FirstFailingCheckAsStated ==
    [][C6_StepAnswers(FALSE)]_vars

\* C6 (SpecHttp): the same order with one more check between the body and
\* the registry lookup, a workspace id that is blank after trimming (400),
\* and with the command's length measured after trimming.
C6_FirstFailingCheck ==
    [][C6_StepAnswers(TRUE)]_vars

\* A command was answered 409, the status of the third check in the order:
\* the body parsed, the workspace is in the registry, and it has no panes.
C6_Witness ==
    /\ incoming = << >>
    /\ http.pc = "idle"
    /\ http.status = 409
    /\ W1 \in DOMAIN workspace_registry
    /\ workspace_registry[W1].runtime_pane_ids = << >>

\* ------------------------------------------------------------------------
\* Properties of the pane runtime.
\* ------------------------------------------------------------------------

\* C7 (SpecPanes): a spawn_pane that reaches the insertion with an id already
\* in panes takes the conflict branch and leaves panes as it was (the id's
\* record is the original one, not the new one); the conflict branch kills
\* the new child and returns Conflict; neither step starts a reader thread,
\* and the new record never has one.
C7_SpawnConflict ==
    [][\A slot \in Slots :
         tasks'[slot] # tasks[slot] =>
           /\ tasks[slot].pc = "insert" /\ tasks[slot].pane_id \in DOMAIN panes =>
                /\ tasks'[slot].pc = "conflict"
                /\ panes' = panes
                /\ panes'[tasks[slot].pane_id] # tasks[slot].pane
                /\ readers' = readers
           /\ tasks[slot].pc = "conflict" =>
                /\ tasks'[slot].pc = "done"
                /\ tasks'[slot].result = "conflict"
                /\ runtimes'[tasks[slot].pane].child = "killed"
                /\ tasks[slot].pane \notin DOMAIN readers'
                /\ panes' = panes
                /\ readers' = readers]_vars

\* A spawn_pane returned Conflict for an id whose original record is in panes
\* with its reader thread running, and a record without a reader thread has
\* a killed child.
C7_Witness ==
    \E slot \in Slots :
        /\ tasks[slot].op = "spawn_pane"
        /\ tasks[slot].result = "conflict"
        /\ tasks[slot].pane_id \in DOMAIN panes
        /\ panes[tasks[slot].pane_id] \in DOMAIN readers
        /\ readers[panes[tasks[slot].pane_id]] = "running"
        /\ \E pane \in 1..Len(runtimes) :
               pane \notin DOMAIN readers /\ runtimes[pane].child = "killed"

\* C8 (SpecPanes): while a pane id is removed (close_pane or a reader's
\* eviction took it out of panes and no spawn_pane has inserted it since),
\* every write_pane_input, resize_pane, suspend_pane, resume_pane and
\* close_pane invoked with it returns NotFound, and a broadcast that looks it
\* up pushes "pane not found".
C8_RemovedIsNotFound ==
    [][/\ \A slot \in Slots :
            SlotFree(slot) /\ tasks'[slot] # tasks[slot]
              /\ tasks'[slot].op \in {"write_pane_input", "resize_pane",
                                      "suspend_pane", "resume_pane",
                                      "close_pane"}
              /\ tasks'[slot].pane_id \in removed =>
                tasks'[slot].pc = "done" /\ tasks'[slot].result = "not_found"
       /\ bcast.pc = "lookup" /\ bcast' # bcast
            /\ bcast.pane_ids[bcast.i] \in removed =>
              /\ Len(bcast'.results) = Len(bcast.results) + 1
              /\ bcast'.results[Len(bcast'.results)] =
                     PaneCommandResult(bcast.pane_ids[bcast.i], FALSE,
                                       Some("pane not found"))]_vars

\* A pane id that was spawned is removed, a write to it has returned NotFound
\* and a broadcast has reported it missing.
C8_Witness ==
    \E slot \in Slots :
        /\ tasks[slot].op = "write_pane_input"
        /\ tasks[slot].result = "not_found"
        /\ tasks[slot].pane_id \in removed
        /\ bcast.pc = "done"
        /\ bcast.pane_ids = <<tasks[slot].pane_id>>
        /\ bcast.results[1].error = Some("pane not found")

\* C9 (SpecBroadcast): no broadcast write reaches a pane whose suspended flag
\* is true at the moment of the write.
C9_NoBroadcastWriteWhileSuspended ==
    "broadcast" \notin suspended_writes

\* C10 (SpecBroadcast): run_command_on_panes has one outcome per pane id
\* visited so far, outcome i naming input id i, and as many outcomes as input
\* ids when it returns.
C10_OneOutcomePerId ==
    /\ Len(bcast.results) <= Len(bcast.pane_ids)
    /\ \A i \in 1..Len(bcast.results) :
           bcast.results[i].pane_id = bcast.pane_ids[i]
    /\ bcast.pc \in {"lookup", "check", "write"} =>
           Len(bcast.results) = bcast.i - 1
    /\ bcast.pc = "done" => Len(bcast.results) = Len(bcast.pane_ids)

\* A broadcast over a repeated id returned: the first visit found the pane
\* suspended, the second wrote to it.
C10_Witness ==
    /\ bcast.pc = "done"
    /\ bcast.pane_ids = <<"p1", "p1">>
    /\ bcast.results[1].error = Some("pane is suspended")
    /\ bcast.results[2].ok

\* ------------------------------------------------------------------------
\* Claims on the frontend round-trip (SpecFrontend).
\* ------------------------------------------------------------------------

\* C11: when the timeout on a job's emitted frontend request resolves and no
\* automation_report has delivered an acknowledgement for the job,
\* dispatch_frontend_automation yields the error "system error: frontend
\* automation request timed out", and the worker's update that follows sets
\* the job Failed with exactly that error and no result.
C11_TimeoutFailsJob ==
    [][LET j == worker.job.job_id
           timed_out == Err("system error: frontend automation request timed out")
       IN  /\ (/\ worker.pc = "frontend_await"
               /\ worker'.pc = "frontend_cleanup"
               /\ ~IsSome(oneshot[j]))
              => worker'.ack = Some(TimedOut)
           /\ (/\ worker.pc = "frontend_cleanup"
               /\ worker.ack = Some(TimedOut)
               /\ worker'.pc = "finish")
              => worker'.outcome = timed_out
           /\ (/\ worker.pc = "finish"
               /\ worker.outcome = timed_out
               /\ worker'.pc = "prune")
              => /\ j \in DOMAIN jobs'
                 /\ jobs'[j].status = "failed"
                 /\ jobs'[j].error = Some(timed_out.error)
                 /\ jobs'[j].result = None]_vars

\* A job whose request reached the UI has failed with the timeout error.
C11_Witness ==
    \E j \in DOMAIN jobs :
        /\ \E e \in emitted : e.job_id = j
        /\ jobs[j].status = "failed"
        /\ jobs[j].error =
              Some("system error: frontend automation request timed out")

\* C12: for a CreatePanes job whose awaiter is pending, a report delivered
\* before the timeout resolves is what the wait yields; with ok = true the
\* job becomes Succeeded with the report's result (the value {ok: true} when
\* the report has none), with ok = false it becomes Failed with the report's
\* error ("frontend automation failed" when the report has none).
C12_ReportDecidesCreatePanes ==
    [][LET j == worker.job.job_id
           create_panes == worker.job.request.action = "create_panes"
       IN  /\ (/\ worker.pc = "frontend_await"
               /\ create_panes
               /\ j \in pending_frontend
               /\ ~IsSome(oneshot[j])
               /\ j \in DOMAIN oneshot'
               /\ IsSome(oneshot'[j]))
              => /\ report' = "ok"
                 /\ Unwrap(oneshot'[j]) \in FrontendAcks
                 /\ Unwrap(oneshot'[j]).job_id = j
           /\ (/\ worker.pc = "frontend_await"
               /\ create_panes
               /\ worker'.pc = "frontend_cleanup"
               /\ IsSome(oneshot[j]))
              => worker'.ack = oneshot[j]
           /\ (/\ worker.pc = "frontend_cleanup"
               /\ create_panes
               /\ worker.ack # Some(TimedOut)
               /\ worker'.pc = "finish")
              => LET ack == Unwrap(worker.ack)
                 IN  worker'.outcome =
                       IF ack.ok
                       THEN Ok(IF ack.result = None
                               THEN [ack_result |-> "ok:true"]
                               ELSE Unwrap(ack.result))
                       ELSE Err(IF ack.error = None
                                THEN "frontend automation failed"
                                ELSE Unwrap(ack.error))
           /\ (/\ worker.pc = "finish"
               /\ create_panes
               /\ worker'.pc = "prune")
              => /\ j \in DOMAIN jobs'
                 /\ IF worker.outcome.ok
                    THEN /\ jobs'[j].status = "succeeded"
                         /\ jobs'[j].result = Some(worker.outcome.value)
                         /\ jobs'[j].error = None
                    ELSE /\ jobs'[j].status = "failed"
                         /\ jobs'[j].result = None
                         /\ jobs'[j].error = Some(worker.outcome.error)]_vars

\* A CreatePanes job has succeeded with the result r a report carried.
C12_Witness ==
    \E j \in DOMAIN jobs :
        /\ jobs[j].request.action = "create_panes"
        /\ jobs[j].status = "succeeded"
        /\ jobs[j].result = Some([ack_result |-> "r"])
        /\ report = "ok"

\* A job id has an awaiter: its dispatch has inserted the sender and neither
\* a report nor the dispatch itself has taken it out again.
C13_HasAwaiter(j) ==
    /\ worker.job.job_id = j
    /\ \/ worker.pc \in {"frontend_emit", "frontend_emit_failed",
                        "frontend_await"} /\ ~IsSome(oneshot[j])
       \/ worker.pc = "frontend_cleanup" /\ worker.ack = Some(TimedOut)
                                        /\ j \in pending_frontend

\* C13: automation_report for a job id without a pending awaiter (never
\* dispatched, already acknowledged, or cleaned up after the timeout) returns
\* NotFound, and a call that returns NotFound changes neither the pending
\* map, nor a response channel, nor a job record.
C13_ReportWithoutAwaiterNotFound ==
    /\ [](\A ack \in FrontendAcks :
            ~C13_HasAwaiter(ack.job_id)
            => automation_report_result(pending_frontend, oneshot, ack)
                  = "not_found")
    /\ [][(report' = "not_found" /\ report # "not_found")
          => UNCHANGED <<pending_frontend, oneshot, jobs, worker>>]_vars

\* A report was accepted for the job the worker waits on, and a later report
\* was answered NotFound while that acknowledgement is still in the channel.
C13_Witness ==
    /\ worker.pc = "frontend_await"
    /\ IsSome(oneshot[worker.job.job_id])
    /\ next_uuid = 2
    /\ report = "not_found"

\* C14: once dispatch_frontend_automation has returned for a job (after an
\* acknowledgement, after the timeout, or after a failed emit), the pending
\* map holds no entry for it: every entry belongs to the job whose dispatch
\* the worker is still inside.
C14_NoAwaiterAfterReturn ==
    \A j \in pending_frontend :
        /\ worker.job.job_id = j
        /\ worker.pc \in {"frontend_emit", "frontend_emit_failed",
                          "frontend_await", "frontend_cleanup", "dropped"}

\* The dispatch returned because the emit failed, and the map is empty.
C14_Witness ==
    /\ worker.pc = "finish"
    /\ worker.outcome = Err("system error: failed to emit automation request")
    /\ pending_frontend = {}

\* ------------------------------------------------------------------------
\* Claims on the workspace sync (SpecSync).
\* ------------------------------------------------------------------------

\* C15: a reader of the registry (the connection handler validating a
\* command or listing the workspaces, the worker resolving a workspace) sees
\* the registry as it was before a sync in flight or as that sync leaves it,
\* never the cleared or partly filled map; and when a sync returns, the
\* registry holds exactly the request's workspaces, keyed by their ids.
C15_SyncIsAtomic ==
    [][LET new == InsertAll(EmptyMap, sync.workspaces)
           http_reads == http.pc = "idle" /\ http' # http
           worker_reads == worker.pc = "resolve" /\ worker'.pc # "resolve"
       IN  /\ (http_reads \/ worker_reads)
              => IF sync.pc = "idle"
                 THEN workspace_registry \in
                         {InsertAll(EmptyMap, w) : w \in SyncLists}
                 ELSE workspace_registry \in {sync.old, new}
           /\ (sync.pc = "insert" /\ sync'.pc = "idle")
              => /\ workspace_registry' = new
                 /\ DOMAIN workspace_registry' =
                       {sync.workspaces[i].workspace_id :
                           i \in 1..Len(sync.workspaces)}]_vars

\* A sync has cleared the registry and not yet refilled it while the worker
\* is about to resolve a workspace.
C15_Witness ==
    /\ sync.pc = "insert"
    /\ workspace_registry \notin {sync.old, InsertAll(EmptyMap, sync.workspaces)}
    /\ worker.pc = "resolve"

\* ------------------------------------------------------------------------
\* Claims on the listener's bind (SpecBind).
\* ------------------------------------------------------------------------

C16_LoopbackHosts ==
    {AUTOMATION_DEFAULT_HOST, Localhost}

\* C16: whatever the bind variable holds, every address the server thread
\* passes to TcpListener::bind has the host "127.0.0.1" or "localhost":
\* parse_automation_bind accepts a value only with one of these hosts and a
\* port in 1..65535, and a value it rejects (or an unset or blank variable)
\* yields the default bind 127.0.0.1:47631.
C16_LoopbackOnly ==
    LET parsed == parse_automation_bind(Unwrap(bind_env))
        accepted == IsSome(bind_env) /\ parsed.ok
    IN  /\ accepted => /\ parsed.value.host \in C16_LoopbackHosts
                       /\ parsed.value.port \in 1..65535
        /\ listener.pc # "start"
           => /\ listener.host \in C16_LoopbackHosts
              /\ accepted => /\ listener.host = parsed.value.host
                             /\ listener.preferred = parsed.value.port
              /\ ~accepted => /\ listener.host = AUTOMATION_DEFAULT_HOST
                              /\ listener.preferred = AUTOMATION_DEFAULT_PORT
        /\ \A i \in 1..Len(listener.candidates) :
              listener.candidates[i].host \in C16_LoopbackHosts
        /\ IsSome(listener.selected)
           => Unwrap(listener.selected).host \in C16_LoopbackHosts

\* The variable names the host 0.0.0.0 and the listener is on 127.0.0.1.
C16_Witness ==
    /\ bind_env = Some(<<"0", ".", "0", ".", "0", ".", "0", ":">> \o Chars47631)
    /\ listener.pc = "listening"
    /\ Unwrap(listener.selected).host = AUTOMATION_DEFAULT_HOST

\* C17: when no bind fails for a reason other than an address in use, the
\* thread ends listening on the preferred port if no process holds it,
\* otherwise on the smallest port of 47631..47641 other than the preferred
\* one that no process holds, and without a listener if there is none.
C17_BindsFirstFreePort ==
    (listener.pc \in {"listening", "failed"} /\ listener.failure # "bind_error")
    => LET free == {port \in ScanPorts \ {listener.preferred} :
                       port \notin occupied}
       IN  IF listener.preferred \notin occupied
           THEN /\ listener.pc = "listening"
                /\ listener.selected =
                      Some(Bind(listener.host, listener.preferred))
                /\ ~listener.used_fallback
           ELSE IF free # {}
           THEN /\ listener.pc = "listening"
                /\ listener.selected =
                      Some(Bind(listener.host,
                                CHOOSE port \in free :
                                    \A other \in free : port <= other))
                /\ listener.used_fallback
           ELSE /\ listener.pc = "failed"
                /\ listener.selected = None

\* The preferred port 47635 and the ports 47631 and 47632 are held; the
\* listener is on 47633.
C17_Witness ==
    /\ listener.pc = "listening"
    /\ listener.preferred = 47635
    /\ {47631, 47632, 47635} \subseteq occupied
    /\ Unwrap(listener.selected).port = 47633

\* The candidate list the scan starts with, against the ports from `first`
\* to the end of the range without the preferred port, in order.
C18_ScanStartsWith(first) ==
    (listener.pc = "bind_preferred" /\ listener'.pc = "scan")
    => LET ports == SelectSeq(PortRange(first, AUTOMATION_FALLBACK_PORT_END),
                              LAMBDA port : port # listener.preferred)
       IN  listener'.candidates =
              [i \in 1..Len(ports) |-> Bind(listener.host, ports[i])]

\* C18 as stated: the candidate list for preferred port P is 47632..47641
\* with P removed, in order, for every P.
C18_CandidatesFrom47632 ==
    [][C18_ScanStartsWith(AUTOMATION_DEFAULT_PORT + 1)]_vars

\* C18: the candidate list for preferred port P is 47631..47641 with P
\* removed, in order, on the host of the preferred bind; it starts at 47632
\* only when P is the default port 47631.
C18_CandidatesFromDefaultPort ==
    [][C18_ScanStartsWith(AUTOMATION_DEFAULT_PORT)]_vars

\* The scan for preferred port 47635 starts with 47631 among ten candidates.
C18_Witness ==
    /\ listener.pc = "scan"
    /\ listener.preferred = 47635
    /\ Len(listener.candidates) = 10
    /\ listener.candidates[1].port = AUTOMATION_DEFAULT_PORT

\* ------------------------------------------------------------------------
\* Claims on the size of the pane registry (SpecPanes).
\* ------------------------------------------------------------------------

\* No command is in flight.
C19_SteadyState ==
    \A slot \in Slots : SlotFree(slot)

\* The runtimes whose spawn_pane returned Ok: their reader thread started.
C19_Spawned ==
    DOMAIN readers

\* The runtimes spawn_pane inserted in the registry.
C19_Inserted ==
    {r \in 1..Len(runtimes) : runtimes[r].entry # "none"}

\* The runtimes a removal by `remover` found in the registry and took out.
C19_RemovedBy(remover) ==
    {r \in 1..Len(runtimes) : runtimes[r].entry = remover}

\* The reader threads that have terminated.
C19_Terminated ==
    {r \in C19_Spawned : readers[r] = "exited"}

\* C19 as stated: at steady state the registry's size is the number of
\* successful spawns minus the closes and minus every reader termination,
\* a reader that terminates after its pane was closed included.  Stated for
\* the states in which the last command did not return an error.
C19_CountsEveryTermination ==
    (C19_SteadyState /\ \A slot \in Slots : tasks[slot].result \in {"none", "ok"})
    => Cardinality(DOMAIN panes) =
          Cardinality(C19_Spawned)
          - (Cardinality(C19_RemovedBy("close")) + Cardinality(C19_Terminated))

\* C19: the registry's size is the number of records spawn_pane inserted
\* minus the removals that found their pane id in the registry: those of
\* close_pane, those of the readers' cleanup tasks, which are at most the
\* reader terminations, and those of spawn_pane after its reader failed to
\* start.  A removal that finds nothing is not counted: a reader that
\* terminates after its pane was closed removes nothing, or the later pane
\* that took the same id.  At steady state the inserted records are those of
\* the successful spawns and those of the spawns whose reader did not start,
\* whose child is killed.
C19_CountsEffectiveRemovals ==
    /\ Cardinality(DOMAIN panes) =
          Cardinality(C19_Inserted)
          - (Cardinality(C19_RemovedBy("close"))
             + Cardinality(C19_RemovedBy("reader"))
             + Cardinality(C19_RemovedBy("cleanup")))
    /\ Cardinality(C19_RemovedBy("reader")) <= Cardinality(C19_Terminated)
    /\ C19_SteadyState
       => /\ C19_Spawned \subseteq C19_Inserted
          /\ \A r \in C19_Inserted \ C19_Spawned :
                runtimes[r].child = "killed"

\* One pane was spawned and closed and its reader has terminated since: the
\* reader's removal found nothing, and the registry is empty.
C19_Witness ==
    /\ C19_SteadyState
    /\ Cardinality(C19_Spawned) = 1
    /\ Cardinality(C19_RemovedBy("close")) = 1
    /\ Cardinality(C19_Terminated) = 1
    /\ C19_RemovedBy("reader") = {}
    /\ panes = EmptyMap

\* ------------------------------------------------------------------------
\* Claims on the rollback of a submission (SpecJobs).
\* ------------------------------------------------------------------------

\* The step in which queue_automation_job returns after a failed send.
C20_RollbackReturns ==
    http.pc = "rollback_remove" /\ http'.pc = "idle"

\* C20: a submission whose send fails (the worker's receiver is gone) is
\* answered 500 and rolled back: its record is removed from the job store,
\* it is not in the channel, and the rollback has taken back exactly the one
\* the submission added to the counter, so that the counter again equals the
\* number of jobs in the channel plus the job the worker has received and
\* not yet subtracted.  That is the counter's value before the submission,
\* less what the worker subtracted for other jobs in the meantime.
C20_RollbackUndoesSubmission ==
    /\ [][C20_RollbackReturns
          => /\ http'.status = 500
             /\ Unwrap(http.job_id) \notin DOMAIN jobs'
             /\ \A i \in 1..Len(queue') : queue'[i].job_id # Unwrap(http.job_id)
             /\ queued_jobs' = queued_jobs]_vars
    /\ [](queued_jobs =
            Len(queue)
            + (IF http.pc \in {"send", "rollback_decrement"} THEN 1 ELSE 0)
            + (IF worker.pc = "decrement" THEN 1 ELSE 0))

\* A submission was rolled back and answered 500 while an earlier job is
\* still in the channel; the counter counts that job alone.
C20_Witness ==
    /\ http = HttpIdle(500)
    /\ ~receiver_open
    /\ Len(queue) = 1
    /\ queued_jobs = 1
    /\ DOMAIN jobs = {queue[1].job_id}

\* ------------------------------------------------------------------------
\* Claims on the queue depth counter and on the serial worker.
\* ------------------------------------------------------------------------

\* C21 (SpecFrontend): the counter counts the jobs waiting in the channel.
\* Whenever no submission is between its increment and its send and the
\* worker is not between a receipt and its decrement, queued_jobs is the
\* length of the channel; a submission's capacity check then answers 429
\* exactly when AUTOMATION_QUEUE_MAX jobs are waiting, whatever the job the
\* worker has received is doing.
C21_CounterCountsWaitingJobs ==
    /\ []((http.pc \notin {"send", "rollback_decrement"}
           /\ worker.pc # "decrement") => queued_jobs = Len(queue))
    /\ [][(http.pc = "queue_check" /\ http'.pc # "queue_check"
            /\ worker.pc # "decrement")
          => ((http'.pc = "idle" /\ http'.status = 429)
                 <=> Len(queue) >= AUTOMATION_QUEUE_MAX)]_vars

\* The first job sent is running, and a third submission was answered 202
\* so that AUTOMATION_QUEUE_MAX jobs wait behind it.
C21_Witness ==
    /\ http = HttpIdle(202)
    /\ Len(sent_log) = AUTOMATION_QUEUE_MAX + 1
    /\ Len(queue) = AUTOMATION_QUEUE_MAX
    /\ jobs[sent_log[1]].status = "running"

\* The jobs whose status is Running.
C25_RunningJobs ==
    {j \in DOMAIN jobs : jobs[j].status = "running"}

\* C25 (SpecFrontend): at most one job is Running.
C25_AtMostOneRunning ==
    Cardinality(C25_RunningJobs) <= 1

\* A job is Running and waits for the UI's acknowledgement while another job
\* waits in the channel and a third has failed.
C25_Witness ==
    /\ worker.pc = "frontend_await"
    /\ C25_RunningJobs = {worker.job.job_id}
    /\ queue # << >>
    /\ \E j \in DOMAIN jobs : jobs[j].status = "failed"

\* C26 (SpecJobs): pending_frontend holds at most one entry, and its key is
\* the id of the job that is Running.
C26_PendingIsTheRunningJob ==
    /\ Cardinality(pending_frontend) <= 1
    /\ pending_frontend \subseteq C25_RunningJobs

\* The worker waits for the acknowledgement of the second job it started;
\* the sender of that job is the pending entry.
C26_Witness ==
    /\ worker.pc = "frontend_await"
    /\ Len(started_log) = 2
    /\ pending_frontend = {started_log[2]}

\* C27 (SpecJobs): a job the worker receives has a Queued record in the job
\* store; the Running update finds that record Queued and the terminal
\* update finds it Running.
C27_ReceivedJobsHaveRecords ==
    [][/\ (worker.pc = "recv" /\ worker'.pc = "decrement")
          => /\ worker'.job.job_id \in DOMAIN jobs
             /\ jobs[worker'.job.job_id].status = "queued"
       /\ (worker.pc = "set_running" /\ worker'.pc # "set_running")
          => /\ worker.job.job_id \in DOMAIN jobs
             /\ jobs[worker.job.job_id].status = "queued"
             /\ jobs'[worker.job.job_id].status = "running"
       /\ (worker.pc = "finish" /\ worker'.pc # "finish")
          => /\ worker.job.job_id \in DOMAIN jobs
             /\ jobs[worker.job.job_id].status = "running"
             /\ IsTerminal(jobs'[worker.job.job_id].status)]_vars

\* The worker has received a job after an earlier job was pruned.
C27_Witness ==
    /\ worker.pc = "decrement"
    /\ jobs[worker.job.job_id].status = "queued"
    /\ \E i \in 1..Len(started_log) : started_log[i] \notin DOMAIN jobs

\* C28 (SpecJobs): started_at_ms is set exactly for the Running, Succeeded
\* and Failed jobs, finished_at_ms exactly for the Succeeded and Failed
\* ones, and created_at_ms <= started_at_ms <= finished_at_ms.
C28_TimestampsFollowStatus ==
    \A j \in DOMAIN jobs :
        LET job == jobs[j]
        IN  /\ IsSome(job.started_at_ms)
                  <=> job.status \in {"running", "succeeded", "failed"}
            /\ IsSome(job.finished_at_ms) <=> IsTerminal(job.status)
            /\ IsSome(job.started_at_ms)
                  => job.created_at_ms <= Unwrap(job.started_at_ms)
            /\ IsSome(job.finished_at_ms)
                  => Unwrap(job.started_at_ms) <= Unwrap(job.finished_at_ms)

\* A failed job that was started after the clock advanced and a running job
\* created after it.
C28_Witness ==
    \E j, k \in DOMAIN jobs :
        /\ jobs[j].status = "failed"
        /\ jobs[j].created_at_ms < Unwrap(jobs[j].started_at_ms)
        /\ jobs[k].status = "running"
        /\ jobs[j].created_at_ms < jobs[k].created_at_ms

\* ------------------------------------------------------------------------
\* Claims on rejected submissions (SpecHttp).
\* ------------------------------------------------------------------------

\* The statuses of a rejected submission.
C29_Rejections ==
    {400, 401, 404, 409, 413, 429}

\* The step answers a POST /v1/commands: the handler returns from the checks
\* before routing or from the route, or queue_automation_job returns.
C29_AnswersSubmission ==
    /\ http'.pc = "idle"
    /\ \/ http.pc = "queue_check"
       \/ /\ http.pc = "idle"
          /\ incoming # << >>
          /\ incoming' = Tail(incoming)
          /\ Head(incoming).method = "POST"
          /\ Head(incoming).path = "/v1/commands"

\* C29: a POST /v1/commands answered 400, 401, 404, 409, 413 or 429 leaves
\* the job store, the channel and the counter as they were, from the accept
\* of the connection to the response; between connections the records in
\* the store are those of the jobs sent into the channel, and a job is sent
\* exactly in the step that answers 202.
C29_RejectionChangesNothing ==
    /\ [][/\ (C29_AnswersSubmission /\ http'.status \in C29_Rejections)
              => UNCHANGED <<jobs, queue, queued_jobs, next_uuid>>
          /\ (http.pc = "idle" /\ http'.pc = "queue_check")
              => UNCHANGED <<jobs, queue, queued_jobs, next_uuid>>
          /\ (http'.pc = "idle" /\ http' # http)
              => (http'.status = 202 <=> sent_log' # sent_log)]_vars
    /\ [](http.pc = "idle"
            => DOMAIN jobs = {sent_log[i] : i \in 1..Len(sent_log)})

\* A valid submission was answered 429: the channel is full and the store
\* holds the records of the jobs in it, no other.
C29_Witness ==
    /\ http = HttpIdle(429)
    /\ incoming = << >>
    /\ Len(queue) = AUTOMATION_QUEUE_MAX
    /\ DOMAIN jobs = {queue[i].job_id : i \in 1..Len(queue)}

\* ------------------------------------------------------------------------
\* Claims on retention pruning (SpecPrune).
\* ------------------------------------------------------------------------

\* C23: prune_completed_jobs_with_limit removes nothing when at most `limit`
\* jobs are succeeded or failed; otherwise it removes exactly the surplus,
\* only succeeded or failed jobs, each with an age key (finished_at_ms, or
\* created_at_ms without it) not greater than the age key of any succeeded
\* or failed job it keeps; the jobs it keeps are unchanged.
C23_PruneRemovesOldestFirst ==
    worker.pc = "pruned"
    => LET before == worker.before
           completed == CompletedJobs(before)
           gone == DOMAIN before \ DOMAIN jobs
       IN  /\ DOMAIN jobs \subseteq DOMAIN before
           /\ \A j \in DOMAIN jobs : jobs[j] = before[j]
           /\ gone \subseteq completed
           /\ Cardinality(completed) <= worker.limit => gone = {}
           /\ Cardinality(completed) > worker.limit
                 => /\ Cardinality(gone)
                         = Cardinality(completed) - worker.limit
                    /\ \A a \in gone, b \in completed \ gone :
                          AgeKey(before[a]) <= AgeKey(before[b])

\* Three terminal jobs were pruned with limit 1: the two with the smaller
\* age keys are gone, one of them aged by created_at_ms, and the newest is
\* kept.
C23_Witness ==
    /\ worker.pc = "pruned"
    /\ worker.limit = 1
    /\ Cardinality(CompletedJobs(worker.before)) = 3
    /\ Cardinality(DOMAIN jobs) = 1
    /\ \E j \in DOMAIN worker.before \ DOMAIN jobs :
          ~IsSome(worker.before[j].finished_at_ms)
    /\ \A j \in DOMAIN worker.before \ DOMAIN jobs, k \in DOMAIN jobs :
          AgeKey(worker.before[j]) < AgeKey(jobs[k])

\* ------------------------------------------------------------------------
\* Claims on the size of a request (SpecRead).
\* ------------------------------------------------------------------------

\* C24: a request whose head and body together are longer than
\* AUTOMATION_HTTP_MAX_BODY_BYTES is not routed: when the handler reaches the
\* match on (method, path), the bytes of the head and the bytes of the body
\* it holds are at most the limit together.
C24_TotalSizeBounded ==
    http.pc = "route"
    => http.wire.head_bytes + http.body <= AUTOMATION_HTTP_MAX_BODY_BYTES

\* ------------------------------------------------------------------------
\* Claims on the writes to one pane (SpecWrites).
\* ------------------------------------------------------------------------

\* C30: what reaches the writer of a pane is made of one contiguous block
\* per call, the data before the newline, the blocks in the order in which
\* the calls acquired the writer's lock.
C30_WritesDoNotInterleave ==
    \A pane \in 1..Len(runtimes) :
        LET writer == runtimes[pane].writer
            written == writer.written
        IN  /\ \A i, k \in 1..Len(written) :
                  i < k => /\ written[i].call <= written[k].call
                           /\ written[i].call = written[k].call
                                 => /\ written[i].part = "data"
                                    /\ written[k].part = "newline"
            /\ \A i \in 1..Len(written) : written[i].call \in 1..writer.calls

\* write_pane_input waits for the lock a broadcast holds after the data of
\* its command; an earlier write_pane_input has left a complete block.
C30_Witness ==
    /\ bcast.pc = "write_newline"
    /\ \E slot \in Slots : tasks[slot].pc = "write" /\ tasks[slot].pane = bcast.pane
    /\ LET written == runtimes[bcast.pane].writer.written
       IN  /\ Len(written) = 3
           /\ written[1] = [call |-> 1, source |-> "input", part |-> "data"]
           /\ written[2] = [call |-> 1, source |-> "input", part |-> "newline"]
           /\ written[3] = [call |-> 2, source |-> "broadcast", part |-> "data"]

\* ------------------------------------------------------------------------
\* Claims on the worker under fair scheduling (SpecLive).
\* ------------------------------------------------------------------------

\* Job j was answered 202 and its record is not yet Succeeded or Failed.
C22_Unfinished(j) ==
    /\ \E i \in 1..Len(sent_log) : sent_log[i] = j
    /\ j \in DOMAIN jobs
    /\ ~IsTerminal(jobs[j].status)

C22_Finished(j) ==
    /\ j \in DOMAIN jobs
    /\ IsTerminal(jobs[j].status)

\* C22: with the worker task scheduled fairly, every job answered 202
\* eventually has status Succeeded or Failed, whether or not the UI ever
\* reports: the wait for the UI ends when the timeout fires, and the jobs
\* behind it in the queue are started.
C22_AcceptedJobsFinish ==
    \A j \in 1..MaxJobs : C22_Unfinished(j) ~> C22_Finished(j)

\* The UI never reported for job 1, which failed on the timeout; job 2, which
\* waited behind it in the queue, is running.
C22_Witness ==
    /\ report = "none"
    /\ 1 \in DOMAIN jobs
    /\ jobs[1].status = "failed"
    /\ jobs[1].error = Some("system error: frontend automation request timed out")
    /\ 2 \in DOMAIN jobs
    /\ jobs[2].status = "running"
    /\ started_log = <<1, 2>>

\* ------------------------------------------------------------------------
\* Claims on the payload of a job record (SpecFrontend).
\* ------------------------------------------------------------------------

\* C40: a Succeeded job has a result and no error, a Failed job an error and
\* no result, a Queued or Running job neither.
C40_PayloadFollowsStatus ==
    \A j \in DOMAIN jobs :
        LET job == jobs[j]
        IN  /\ IsSome(job.result) <=> job.status = "succeeded"
            /\ IsSome(job.error) <=> job.status = "failed"

\* A succeeded job with the result the UI acknowledged, a failed job with its
\* error and a queued job at once.
C40_Witness ==
    \E j, k, l \in DOMAIN jobs :
        /\ jobs[j].status = "succeeded"
        /\ jobs[j].result = Some([ack_result |-> "r"])
        /\ jobs[k].status = "failed"
        /\ IsSome(jobs[k].error)
        /\ jobs[l].status = "queued"

\* ------------------------------------------------------------------------
\* Claims on the acknowledgement against the timeout (SpecAck).
\* ------------------------------------------------------------------------

\* C33: when the job of the worker has been given its final status and
\* automation_report had returned success for it, the status is the one the
\* acknowledgement decides: Succeeded for ok = true, Failed with the
\* acknowledgement's error for ok = false; never the timeout's.
C33_AcceptedAckDecides ==
    (/\ worker.pc = "prune"
     /\ "accepted" \in DOMAIN worker
     /\ IsSome(worker.accepted))
    => LET ack == Unwrap(worker.accepted)
           job == jobs[worker.job.job_id]
       IN  IF ack.ok
           THEN job.status = "succeeded"
           ELSE /\ job.status = "failed"
                /\ job.error =
                     Some(UnwrapOr(ack.error, "frontend automation failed"))

\* ------------------------------------------------------------------------
\* Claims on the workspace a job runs against (SpecJobs).
\* ------------------------------------------------------------------------

\* C36: the worker looks the workspace of its job up in the registry as it is
\* when the job is executed: when the workspace is not in it (a sync removed
\* it after the 202), the job goes straight to its end with the error "not
\* open", without a broadcast, a git command or a request to the UI, and is
\* marked Failed with that error; the job goes on only when the workspace is
\* in the registry.
C36_WorkspaceResolvedAtExecution ==
    [][LET j == worker.job.job_id
           gone == worker.job.request.workspace_id
                      \notin DOMAIN workspace_registry
           not_open == Err("not found error: workspace is not open")
       IN  /\ (/\ worker.pc = "resolve"
               /\ worker'.pc # "resolve"
               /\ gone)
              => /\ worker'.pc = "finish"
                 /\ worker'.outcome = not_open
                 /\ bcast' = bcast
                 /\ emitted' = emitted
                 /\ pending_frontend' = pending_frontend
           /\ (/\ worker.pc = "resolve"
               /\ worker'.pc \in {"git", "broadcast", "frontend_insert"})
              => ~gone
           /\ (/\ worker.pc = "finish"
               /\ worker.outcome = not_open
               /\ worker'.pc = "prune")
              => /\ jobs'[j].status = "failed"
                 /\ jobs'[j].error = Some(not_open.error)
                 /\ jobs'[j].result = None]_vars

\* A job that was answered 202, so its workspace was open then, has failed
\* with "not open"; the UI was never asked for it.
C36_Witness ==
    \E i \in 1..Len(sent_log) :
        LET j == sent_log[i]
        IN  /\ j \in DOMAIN jobs
            /\ jobs[j].status = "failed"
            /\ jobs[j].error = Some("not found error: workspace is not open")
            /\ \A e \in emitted : e.job_id # j

\* ------------------------------------------------------------------------
\* Claims on CreateWorktree jobs (SpecWorktree).
\* ------------------------------------------------------------------------

\* C37: a CreateWorktree job with open_after_create true or unset goes from
\* the created worktree to the ImportWorktree round-trip and succeeds exactly
\* when the round-trip is acknowledged with ok = true; a timeout or ok =
\* false fails it.  With open_after_create = false the job ends after git
\* and no request is emitted for it.
C37_WorktreeNeedsImport ==
    [][LET j == worker.job.job_id
           request == worker.job.request
           open == UnwrapOr(request.open_after_create, TRUE)
       IN  (/\ worker.pc \in {"git", "frontend_cleanup", "frontend_emit",
                              "finish"}
            /\ request.action = "create_worktree")
           => /\ (worker.pc = "git" /\ worker'.pc = "frontend_insert") => open
              /\ (/\ worker.pc = "git"
                  /\ worker'.pc = "finish"
                  /\ worker'.outcome.ok) => ~open
              /\ worker.pc = "frontend_emit" => open
              /\ (worker.pc = "frontend_cleanup" /\ worker'.pc = "finish")
                    => (worker'.outcome.ok
                          <=> /\ worker.ack # Some(TimedOut)
                              /\ Unwrap(worker.ack).ok)
              /\ (worker.pc = "finish" /\ worker'.pc = "prune")
                    => (jobs'[j].status = "succeeded" <=> worker.outcome.ok)]_vars

\* The UI was asked to import the worktree of a job and answered ok = false:
\* the job has failed with the UI's error.
C37_Witness ==
    \E j \in DOMAIN jobs :
        /\ jobs[j].request.action = "create_worktree"
        /\ jobs[j].request.open_after_create = None
        /\ [job_id |-> j, action |-> "import_worktree"] \in emitted
        /\ jobs[j].status = "failed"
        /\ jobs[j].error = Some("e")

\* ------------------------------------------------------------------------
\* Claims on worktree paths (SpecPath).
\* ------------------------------------------------------------------------

\* The suffixes k of 2..=999 (scaled) for which s-k does not exist.
C38_FreeSuffixes ==
    {k \in 2..(WORKTREE_SUFFIX_END - 1) :
        Suffixed(worker.branch_segment, FormatDecimal(k)) \notin worker.exists}

\* C38: the path next_available_worktree_path returns does not exist; it is
\* the segment s when s is free, otherwise s-k for the smallest k of 2..=999
\* with s-k free, and s-<UUID> only when s and every s-k exist.
C38_ReturnsFreePath ==
    worker.pc = "path_returned"
    => LET s == worker.branch_segment
           free == C38_FreeSuffixes
       IN  /\ worker.path \notin worker.exists
           /\ s \notin worker.exists => worker.path = s
           /\ (s \in worker.exists /\ free # {})
                => \E k \in free :
                      /\ \A l \in free : k <= l
                      /\ worker.path = Suffixed(s, FormatDecimal(k))
           /\ worker.fallback <=> (s \in worker.exists /\ free = {})
           /\ worker.fallback
                => \E n \in 1..MaxJobs : worker.path = Suffixed(s, WorktreeUuid(n))

\* Segment a exists with a-2 and a-4 but not a-3: a-3 is returned.
C38_Witness ==
    /\ worker.pc = "path_returned"
    /\ worker.branch_segment = <<"a">>
    /\ {<<"a">>, <<"a", "-", "2">>, <<"a", "-", "4">>} \subseteq worker.exists
    /\ worker.path = <<"a", "-", "3">>

\* ------------------------------------------------------------------------
\* Claims on the Discord presence worker (SpecDiscord).
\* ------------------------------------------------------------------------

\* C39: when the worker leaves apply_latest_discord_presence_command the
\* channel is empty and desired_enabled is the value of the last command
\* sent; and whenever the worker is outside of it with an empty channel,
\* desired_enabled is the value of the last command sent, if any was.
C39_DesiredIsLastCommand ==
    [][/\ (worker.pc = "try_recv" /\ worker'.pc # "try_recv")
          => /\ worker.channel = << >>
             /\ worker'.desired_enabled = worker.sent[Len(worker.sent)]
       /\ (/\ worker'.pc # "try_recv"
           /\ worker'.channel = << >>
           /\ worker'.sent # << >>)
          => worker'.desired_enabled = worker'.sent[Len(worker'.sent)]]_vars

\* Three toggles, on, off, on, were sent before the worker woke up on the
\* first and are all received: presence is desired.
C39_Witness ==
    /\ worker.pc = "presence"
    /\ worker.sent = <<TRUE, FALSE, TRUE>>
    /\ worker.channel = << >>
    /\ worker.desired_enabled
    /\ ~worker.client

\* ------------------------------------------------------------------------
\* Claims on reader threads and their cleanup (SpecReaders).
\* ------------------------------------------------------------------------

\* The record `pane` is in the registry.
C31_InRegistry(pane) ==
    \E id \in DOMAIN panes : panes[id] = pane

\* C31: once the reader thread of a pane has terminated, for whatever cause,
\* and scheduled its cleanup, the record of that pane is eventually absent
\* from the registry.
C31_TerminatedReaderEvicts ==
    \A pane \in 1..MaxRuntimes :
        (pane \in DOMAIN readers /\ readers[pane] = "cleanup")
            ~> ~C31_InRegistry(pane)

\* The cleanup task of a reader took the record of its pane out of the
\* registry while the child was still alive: the sink had refused an event.
C31_Witness ==
    \E pane \in DOMAIN readers :
        /\ readers[pane] = "exited"
        /\ runtimes[pane].entry = "reader"
        /\ runtimes[pane].child = "running"

\* C32: the cleanup of a reader removes at most the record the reader was
\* spawned for: every other record of the registry is still there, under its
\* id, after the cleanup.
C32_CleanupRemovesOwnRecord ==
    [][\A pane \in DOMAIN readers :
          (readers[pane] = "cleanup" /\ readers'[pane] = "exited")
          => \A id \in DOMAIN panes :
                panes[id] # pane => (id \in DOMAIN panes' /\ panes'[id] = panes[id])
      ]_vars

\* No command is at work on the record `pane`.
C35_Settled(pane) ==
    \A slot \in DOMAIN tasks : tasks[slot].pane # pane

\* C35: a record that was taken out of the registry, by close_pane, by the
\* cleanup of a reader or after a failed start of the reader thread, belongs
\* to a child that has exited or was killed, once the command that removed
\* it has returned.
C35_RemovedMeansChildGone ==
    \A pane \in 1..Len(runtimes) :
        (/\ runtimes[pane].entry \in {"close", "reader", "cleanup"}
         /\ C35_Settled(pane))
        => runtimes[pane].child \in {"exited", "killed"}

\* ------------------------------------------------------------------------
\* Claims on concurrent suspend and resume (SpecSignals).
\* ------------------------------------------------------------------------

\* C34: when no suspend_pane or resume_pane is under way, the flag of a pane
\* is set exactly when its child is stopped, that is when the last signal
\* delivered to it was SIGSTOP.
C34_FlagFollowsLastSignal ==
    (\A slot \in DOMAIN tasks : tasks[slot].pc \notin {"signal", "store"})
    => \A pane \in 1..Len(runtimes) :
          runtimes[pane].entry = "inserted"
          => (runtimes[pane].suspended <=> runtimes[pane].child = "stopped")

====
